---- MODULE Spec2Model ----
(***************************************************************************)
(* Orchestration engine of Agentic-Kernel.                                 *)
(*                                                                         *)
(*   SpecExec : WorkflowExecutor.execute_workflow (inner loop)             *)
(*   SpecExecFair : SpecExec when every agent.execute call returns         *)
(*   SpecPlan : WorkflowPlanner.create_workflow / replan_workflow          *)
(*   SpecRun  : OrchestratorAgent.run_task / execute_step                  *)
(*   SpecSend : CommunicationProtocol.send_message                         *)
(*   SpecBus  : MessageBus with the agents' protocols and handlers         *)
(*   SpecBusFair : SpecBus with the event loop's fairness                  *)
(*   SpecCons : one consensus process at its requester                     *)
(*   SpecTask : the A2A TaskManager                                        *)
(*   SpecEntry : the agents' message-driven entry point for task requests  *)
(*   SpecServer : the A2A server's task endpoints and process_task         *)
(***************************************************************************)
EXTENDS Naturals, Integers, Sequences, FiniteSets, TLC

VARIABLES
    \* ---- WorkflowExecutor.execute_workflow ----
    version_steps,          \* version.steps of the version being executed
    x_pc,                   \* position inside execute_workflow
    inner_loop_iterations,
    completed_steps,
    failed_steps,
    skipped_steps,
    executable_steps,       \* the rest of the batch the for loop walks
    selected_agent,         \* what select_agent_for_task returned for that call
    last_result,            \* result of the latest _execute_step call
    executed,               \* names passed to _execute_step, in call order
    all_success,            \* every result so far had status "success"
    x_status,               \* the status execute_workflow returns
    \* ---- WorkflowPlanner / WorkflowHistory ----
    versions,               \* the versions of the workflow, by version id
    current_version,        \* id of the workflow's current version
    has_metadata,           \* get_workflow_metadata finds the workflow
    replan_ret,             \* what the latest replan_workflow call returned
    replan_outcome,         \* how the latest replan_workflow call ended
    last_replan,            \* the latest replan that created a version: its
                            \* source, arguments and the version it returned
    \* ---- OrchestratorAgent.run_task ----
    task_plan,              \* task_ledger.plan
    pl_status,              \* progress_ledger.current_status
    pl_completed,           \* progress_ledger.completed_steps
    retry_count,            \* progress_ledger.retry_count
    last_entry,             \* status of the last entry of progress_ledger.entries
    planning_attempts,
    r_pc,                   \* position inside run_task
    final_status,           \* "status" of the dict run_task returns
    final_error,            \* "error" of the dict run_task returns
    n_exec,                 \* calls of _execute_step so far
    step_retries,           \* per step: times it was reset to pending for a retry
    execs_since_replan,     \* per step: executions since the last replan attempt
    replan_for,             \* step whose failure last led to a replan attempt
    replan_failed,          \* a replan of this run returned None
    current_plan_version,   \* task_ledger.current_plan_version
    entries,                \* progress_ledger.entries: the status of each entry
    \* ---- MessageBus / CommunicationProtocol ----
    subscribers,            \* agent ids in MessageBus.subscribers
    message_queue,          \* MessageBus.message_queue
    _running,               \* MessageBus._running
    b_pc,                   \* per _process_messages task: its position
    current,                \* per _process_messages task: the message in hand
    _processor_task,        \* MessageBus._processor_task: the latest task
    stop_pc,                \* position of a MessageBus.stop call
    awaited_task,           \* the task that stop call awaits
    next_id,                \* message ids handed out so far (uuid4 is fresh)
    last_delivery,          \* how the latest loop iteration ended
    last_send,              \* the latest send_message call of an agent: its
                            \* arguments and how it ended
    \* ---- ConsensusMixin with its CollaborativeProtocol (the requester) ----
    voting_mechanism,       \* of the registered consensus process
    min_participants,       \* of the registered consensus process
    votes,                  \* the recorded votes, in the order of their keys
    consensus_result,       \* the tallied result, None before the tally
    results_sent,           \* per participant: CONSENSUS_RESULT messages sent
    votes_handled,          \* CONSENSUS_VOTE messages handled so far
    \* ---- a2a TaskManager ----
    tasks,                  \* TaskManager.tasks, NoTask for an id not in it
    tm_last,                \* the latest TaskManager call and how it ended
    task_subscribers,       \* per task id: the subscriptions notified of it
    sub_queue,              \* per subscription: its asyncio.Queue
    sub_pc,                 \* per subscription: "none", "waiting" or "ended"
    sub_task,               \* per subscription: the task id it asked for
    sub_got,                \* per subscription: the events yielded to it
    sub_late,               \* per subscription: the task was final at its start
    \* ---- the agents' _handle_task_request ----
    handled,                \* per TASK_REQUEST handled: the handler, what
                            \* execute did and the responses sent
    \* ---- a2a/server.py ----
    srv_status,             \* per task id: Task.status, None for no task
    srv_pc,                 \* per task id: position of its process_task
    srv_chunks,             \* per task id: chunks process_task has received
    \* ---- agents/core/feedback.py ----
    fb_message,             \* the FEEDBACK messages on their way, at most one
    feedback_entries,       \* feedback_manager: the stored records, oldest first
    fb_acks,                \* FEEDBACK_ACKNOWLEDGMENT messages sent
    fb_raised,              \* whether the last send_feedback raised ValueError
    \* ---- request_consensus (agents/core/consensus.py, protocol.py) ----
    cr_clock,               \* datetime.now(), in whole seconds
    cr_calls,               \* the request_consensus calls made, in order
    cr_requests,            \* the CONSENSUS_REQUEST messages sent, in order
    \* ---- task_decomposition.py, task_decomposition_strategies.py ----
    d_strategy,             \* the strategy the complex task was decomposed with
    d_subtasks              \* ComplexTask.subtasks, in the order they were added

execVars == <<version_steps, x_pc, inner_loop_iterations, completed_steps,
              failed_steps, skipped_steps, executable_steps, selected_agent,
              last_result, executed, all_success, x_status>>

planVars == <<versions, current_version, has_metadata, replan_ret, last_replan,
              replan_outcome>>

runVars == <<task_plan, pl_status, pl_completed, retry_count, last_entry,
             planning_attempts, r_pc, final_status, final_error, n_exec,
             step_retries, execs_since_replan, replan_for, replan_failed,
             current_plan_version, entries>>

busVars == <<subscribers, message_queue, _running, b_pc, current,
             _processor_task, stop_pc, awaited_task,
             next_id, last_delivery, last_send>>

consVars == <<voting_mechanism, min_participants, votes, consensus_result,
              results_sent, votes_handled>>

taskVars == <<tasks, tm_last, task_subscribers, sub_queue, sub_pc, sub_task,
              sub_got, sub_late>>

entryVars == <<handled>>

coreVars == <<execVars, planVars, runVars, busVars, consVars, taskVars, entryVars>>

serverVars == <<srv_status, srv_pc, srv_chunks>>

feedbackVars == <<fb_message, feedback_entries, fb_acks, fb_raised>>

requestVars == <<cr_clock, cr_calls, cr_requests>>

decompVars == <<d_strategy, d_subtasks>>

extVars == <<serverVars, feedbackVars, requestVars, decompVars>>

serverOthers == <<coreVars, feedbackVars, requestVars, decompVars>>

feedbackOthers == <<coreVars, serverVars, requestVars, decompVars>>

requestOthers == <<coreVars, serverVars, feedbackVars, decompVars>>

decompOthers == <<coreVars, serverVars, feedbackVars, requestVars>>

commVars == <<busVars, consVars, taskVars, entryVars, extVars>>

vars == <<execVars, planVars, runVars, commVars>>

(***************************************************************************)
(* Bounds of the model and constants of the program.                       *)
(***************************************************************************)
\* Step names a plan may use, in plan order.
NameSeq == <<"S1", "S2", "S3">>

\* Longest dependency list of a step of an input plan.
MaxDeps == 2

\* Most versions a workflow gets (the initial one and its replans).
MaxVersions == 2

\* Most steps of a plan the language model returns to run_task.
MaxRunSteps == 2

\* Most calls of _execute_step in one run_task that are followed.
MaxExecs == 6

\* config["max_task_retries"]
max_task_retries == 1

\* config["max_planning_attempts"]
max_planning_attempts == 3

\* WorkflowExecutor.max_inner_loop_iterations
max_inner_loop_iterations == 10

\* WorkflowExecutor.reflection_threshold = 0.7, as a fraction
reflection_threshold_num == 7
reflection_threshold_den == 10

None == "None"

(***************************************************************************)
(* Lists (Python lists are sequences; `in` is membership in the range).    *)
(***************************************************************************)
Range(s) == {s[i] : i \in 1..Len(s)}

In(x, s) == \E i \in 1..Len(s) : s[i] = x

\* The names of S in plan order, as a list.
ListOf(S) == SelectSeq(NameSeq, LAMBDA n : n \in S)

StepNames == Range(NameSeq)

(***************************************************************************)
(* Plans: WorkflowStep(task, dependencies, parallel, condition).           *)
(***************************************************************************)
WorkflowStep(name, deps, par, cond) ==
    [task |-> [name |-> name], dependencies |-> deps,
     parallel |-> par, condition |-> cond]

DepLists == {ListOf(S) : S \in {T \in SUBSET StepNames : Cardinality(T) <= MaxDeps}}

\* Plans of n steps named NameSeq[1..n]; every step carries the same parallel
\* flag (OrchestratorAgent.execute_workflow builds them so) and at most one
\* step carries a condition.
PlansOfLen(n) ==
    {[i \in 1..n |-> WorkflowStep(NameSeq[i], d[i], par,
                                  IF i = c THEN "cond" ELSE None)] :
        d \in [1..n -> DepLists], par \in BOOLEAN, c \in 0..n}

ExecPlans == UNION {PlansOfLen(n) : n \in 0..Len(NameSeq)}

(***************************************************************************)
(* WorkflowExecutor._get_executable_steps                                  *)
(***************************************************************************)
\* Mutant: the dependencies_satisfied test is left out.
_get_executable_steps_unsatisfied(steps, completed, failed) ==
    SelectSeq(steps, LAMBDA step :
        /\ ~In(step.task.name, completed \o failed)
        /\ ~\E k \in 1..Len(step.dependencies) : In(step.dependencies[k], failed))

\* Mutant: only the first ready step is returned.
_get_executable_steps_first(steps, completed, failed) ==
    LET ready == SelectSeq(steps, LAMBDA step :
                     /\ ~In(step.task.name, completed \o failed)
                     /\ \A k \in 1..Len(step.dependencies) :
                            In(step.dependencies[k], completed)
                     /\ ~\E k \in 1..Len(step.dependencies) :
                            In(step.dependencies[k], failed))
    IN  IF ready = <<>> THEN <<>> ELSE <<Head(ready)>>

_get_executable_steps(steps, completed, failed) ==
    LET handled_steps == completed \o failed
        dependencies_satisfied(step) ==
            \A k \in 1..Len(step.dependencies) : In(step.dependencies[k], completed)
        dependencies_failed(step) ==
            \E k \in 1..Len(step.dependencies) : In(step.dependencies[k], failed)
    IN  SelectSeq(steps, LAMBDA step :
            /\ ~In(step.task.name, handled_steps)
            /\ dependencies_satisfied(step)
            /\ ~dependencies_failed(step))

(***************************************************************************)
(* WorkflowExecutor._execute_step                                          *)
(*   agent   : what select_agent_for_task returns ("agent" or None)       *)
(*   outcome : what agent.execute does: the status of the dict it returns, *)
(*             "no_status" (a dict without status, or a non-dict), or      *)
(*             "raises"                                                    *)
(***************************************************************************)
AgentOutcomes == {"success", "completed", "failed", "no_status", "raises"}

NoSuitableAgent == "No suitable agent found for task"

\* Mutant: the `if not agent` return is left out.
_execute_step_no_agent_check(name, agent, outcome) ==
    IF outcome = "raises"
    THEN [task |-> name, status |-> "error", error |-> "exception",
          agent_executed |-> TRUE]
    ELSE [task |-> name,
          status |-> IF outcome = "no_status" THEN "success" ELSE outcome,
          error |-> IF outcome = "failed" THEN "agent error" ELSE None,
          agent_executed |-> TRUE]

_execute_step(name, agent, outcome) ==
    IF agent = None
    THEN [task |-> name, status |-> "error", error |-> NoSuitableAgent,
          agent_executed |-> FALSE]
    ELSE IF outcome = "raises"
    THEN [task |-> name, status |-> "error", error |-> "exception",
          agent_executed |-> TRUE]
    ELSE IF outcome = "no_status"
    THEN [task |-> name, status |-> "success", error |-> None,
          agent_executed |-> TRUE]
    ELSE [task |-> name, status |-> outcome,
          error |-> IF outcome = "failed" THEN "agent error" ELSE None,
          agent_executed |-> TRUE]

NoResult == [task |-> None, status |-> None, error |-> None, agent_executed |-> FALSE]

(***************************************************************************)
(* WorkflowExecutor.execute_workflow                                       *)
(***************************************************************************)
ExecInit ==
    /\ version_steps \in ExecPlans
    /\ x_pc = "while"
    /\ inner_loop_iterations = 0
    /\ completed_steps = <<>>
    /\ failed_steps = <<>>
    /\ skipped_steps = <<>>
    /\ executable_steps = <<>>
    /\ selected_agent = None
    /\ last_result = NoResult
    /\ executed = <<>>
    /\ all_success = TRUE
    /\ x_status = None

\* The final status (lines 193-197).
FinalStatus(completed, failed) ==
    IF failed # <<>>
    THEN (IF completed # <<>> THEN "partial_success" ELSE "failed")
    ELSE "success"

\* Leaving the inner loop: lines 183-210.
Finish ==
    /\ x_pc' = "done"
    /\ x_status' = FinalStatus(completed_steps, failed_steps)

\* Mutant: the loop test of line 128 and the `if not executable_steps` break
\* of line 135 are left out.
WhileHead_no_stall_break ==
    /\ UNCHANGED <<planVars, runVars, commVars>>
    /\ x_pc = "while"
    /\ UNCHANGED <<version_steps, completed_steps, failed_steps, skipped_steps,
                   selected_agent, last_result, executed, all_success>>
    /\ IF ~(inner_loop_iterations < max_inner_loop_iterations)
       THEN Finish /\ UNCHANGED <<inner_loop_iterations, executable_steps>>
       ELSE /\ inner_loop_iterations' = inner_loop_iterations + 1
            /\ IF Len(completed_steps) + Len(failed_steps) + Len(skipped_steps)
                      >= Len(version_steps)
               THEN Finish /\ UNCHANGED executable_steps
               ELSE /\ executable_steps' =
                           _get_executable_steps(version_steps, completed_steps,
                                                 failed_steps)
                    /\ x_pc' = "for"
                    /\ UNCHANGED x_status

\* One pass over the head of the while loop: lines 115-137.
WhileHead ==
    /\ UNCHANGED <<planVars, runVars, commVars>>
    /\ x_pc = "while"
    /\ UNCHANGED <<version_steps, completed_steps, failed_steps, skipped_steps,
                   selected_agent, last_result, executed, all_success>>
    /\ IF ~(inner_loop_iterations < max_inner_loop_iterations)
       THEN Finish /\ UNCHANGED <<inner_loop_iterations, executable_steps>>
       ELSE /\ inner_loop_iterations' = inner_loop_iterations + 1
            /\ LET total_handled_steps ==
                       Len(completed_steps) + Len(failed_steps) + Len(skipped_steps)
                   exe == _get_executable_steps(version_steps, completed_steps,
                                                failed_steps)
               IN  IF total_handled_steps >= Len(version_steps)
                   THEN Finish /\ UNCHANGED executable_steps
                   ELSE IF inner_loop_iterations' > Len(version_steps) * 2
                   THEN Finish /\ UNCHANGED executable_steps
                   ELSE IF exe = <<>>
                   THEN Finish /\ UNCHANGED executable_steps
                   ELSE /\ executable_steps' = exe
                        /\ x_pc' = "for"
                        /\ UNCHANGED x_status

\* The for loop skips a step whose condition evaluates false: lines 141-149.
SkipStep ==
    /\ UNCHANGED <<planVars, runVars, commVars>>
    /\ x_pc = "for"
    /\ executable_steps # <<>>
    /\ LET step == Head(executable_steps)
       IN  /\ step.condition # None
           /\ skipped_steps' = Append(skipped_steps, step.task.name)
    /\ executable_steps' = Tail(executable_steps)
    /\ UNCHANGED <<version_steps, x_pc, inner_loop_iterations, completed_steps,
                   failed_steps, selected_agent, last_result, executed,
                   all_success, x_status>>

\* The for loop executes a step and records its result: lines 151-168.
ExecuteStep(agent, outcome) ==
    /\ UNCHANGED <<planVars, runVars, commVars>>
    /\ x_pc = "for"
    /\ executable_steps # <<>>
    /\ LET step == Head(executable_steps)
           result == _execute_step(step.task.name, agent, outcome)
       IN  /\ selected_agent' = agent
           /\ last_result' = result
           /\ executed' = Append(executed, step.task.name)
           /\ all_success' = (all_success /\ result.status = "success")
           /\ IF result.status = "success"
              THEN /\ completed_steps' = Append(completed_steps, step.task.name)
                   /\ UNCHANGED failed_steps
              ELSE /\ failed_steps' = Append(failed_steps, step.task.name)
                   /\ UNCHANGED completed_steps
    /\ executable_steps' = Tail(executable_steps)
    /\ UNCHANGED <<version_steps, x_pc, inner_loop_iterations, skipped_steps,
                   x_status>>

\* After the for loop: the reflection break, lines 170-181.
EvaluateProgress ==
    /\ UNCHANGED <<planVars, runVars, commVars>>
    /\ x_pc = "for"
    /\ executable_steps = <<>>
    /\ UNCHANGED <<version_steps, inner_loop_iterations, completed_steps,
                   failed_steps, skipped_steps, executable_steps, selected_agent,
                   last_result, executed, all_success>>
    /\ IF /\ failed_steps # <<>>
          /\ Len(completed_steps) * reflection_threshold_den
                 < reflection_threshold_num * Len(version_steps)
          /\ inner_loop_iterations > 1
       THEN Finish
       ELSE x_pc' = "while" /\ UNCHANGED x_status

ExecNext ==
    \/ WhileHead
    \/ SkipStep
    \/ \E agent \in {None, "agent"}, outcome \in AgentOutcomes :
           ExecuteStep(agent, outcome)
    \/ EvaluateProgress

(***************************************************************************)
(* WorkflowHistory: the version store the planner writes to.               *)
(***************************************************************************)
\* A version id that is None (version ids are 1, 2, ... in creation order).
NoId == 0

\* What get_version returns when it finds no version.
NoVersion == [version_id |-> NoId, steps |-> <<>>, created_by |-> None,
              parent_version_id |-> NoId]

NoReplan == [source |-> NoId, completed_steps |-> <<>>, failed_steps |-> <<>>,
             returned |-> NoId]

\* workflow_history.get_version(workflow_id, version_id): the current version
\* when version_id is None, None when there is no such version.
get_version(vs, cur, version_id) ==
    IF version_id = NoId THEN (IF cur \in 1..Len(vs) THEN vs[cur] ELSE NoVersion)
    ELSE IF version_id \in 1..Len(vs) THEN vs[version_id]
    ELSE NoVersion

\* workflow_history.create_version(...): the stored version; its id is its
\* place in the store.
create_version(vs, steps, created_by, parent_version_id) ==
    [version_id |-> Len(vs) + 1, steps |-> steps, created_by |-> created_by,
     parent_version_id |-> parent_version_id]

(***************************************************************************)
(* WorkflowPlanner.replan_workflow                                         *)
(***************************************************************************)
\* Mutant: dependencies are kept as they are.
updated_dependencies_kept(step, failed) == step.dependencies

\* Lines 147-149.
updated_dependencies(step, failed) ==
    SelectSeq(step.dependencies, LAMBDA dep : ~In(dep, failed))

\* Mutant: the completed steps are carried over first, the other surviving
\* steps follow them.
new_steps_completed_first(steps, completed, failed) ==
    LET rest == SelectSeq(steps, LAMBDA step :
                    ~In(step.task.name, completed) /\ ~In(step.task.name, failed))
    IN  SelectSeq(steps, LAMBDA step : In(step.task.name, completed))
        \o [i \in 1..Len(rest) |->
               [rest[i] EXCEPT !.dependencies = updated_dependencies(rest[i], failed)]]

\* Lines 135-158: the step list of the new version.
RECURSIVE new_steps(_, _, _)
new_steps(steps, completed, failed) ==
    IF steps = <<>> THEN <<>>
    ELSE LET step == Head(steps)
             rest == new_steps(Tail(steps), completed, failed)
         IN  IF In(step.task.name, completed) THEN <<step>> \o rest
             ELSE IF In(step.task.name, failed) THEN rest
             ELSE <<[task |-> step.task,
                     dependencies |-> updated_dependencies(step, failed),
                     parallel |-> step.parallel,
                     condition |-> step.condition]>> \o rest

\* Plans a workflow is created with: every dependency names an earlier step,
\* and only the last step may carry a condition.
PlannerPlans ==
    {p \in PlansOfLen(Len(NameSeq)) :
        \A i \in 1..Len(p) :
            /\ Range(p[i].dependencies) \subseteq {NameSeq[j] : j \in 1..(i - 1)}
            /\ (i < Len(p) => p[i].condition = None)}

\* WorkflowPlanner.create_workflow has stored version 1; the workflow metadata
\* may be missing from the history.
PlanInit ==
    /\ \E p \in PlannerPlans :
           versions = <<create_version(<<>>, p, "system", NoId)>>
    /\ current_version = 1
    /\ has_metadata \in BOOLEAN
    /\ replan_ret = NoId
    /\ last_replan = NoReplan
    /\ replan_outcome = "none"

\* The planner at rest, for the specifications of the other components.
PlanIdle ==
    /\ versions = <<>>
    /\ current_version = 0
    /\ has_metadata = FALSE
    /\ replan_ret = NoId
    /\ last_replan = NoReplan
    /\ replan_outcome = "none"

\* Mutant: the dependencies are updated in the source version's steps.
ReplanWorkflowInPlace(version_id, completed, failed, persist) ==
    /\ UNCHANGED <<execVars, runVars, commVars>>
    /\ Len(versions) < MaxVersions
    /\ get_version(versions, current_version, version_id) # NoVersion
    /\ has_metadata /\ persist = "ok"
    /\ LET version == get_version(versions, current_version, version_id)
           new == create_version(versions,
                                 new_steps(version.steps, completed, failed),
                                 "workflow_planner", version.version_id)
       IN  /\ versions' = Append(
                   [versions EXCEPT ![version.version_id].steps =
                       [i \in 1..Len(version.steps) |->
                           [version.steps[i] EXCEPT !.dependencies =
                               updated_dependencies(version.steps[i], failed)]]],
                   new)
           /\ current_version' = new.version_id
           /\ replan_ret' = new.version_id
           /\ last_replan' = [source |-> version.version_id,
                              completed_steps |-> completed,
                              failed_steps |-> failed,
                              returned |-> new.version_id]
           /\ replan_outcome' = "created"
    /\ UNCHANGED has_metadata

\* How a replan_workflow call ends without the metadata test of lines 128-130.
replan_outcome_no_metadata_test(version, metadata, persist) ==
    IF version = NoVersion THEN "version_not_found"
    ELSE IF persist = "raises" THEN "persist_raised"
    ELSE "created"

\* How a replan_workflow call ends: line 116 (no version, return None), line
\* 128 (no metadata, return None), line 176 (create_version raised, caught,
\* return None), line 174 (the new version id is returned).
replan_outcome_of(version, metadata, persist) ==
    IF version = NoVersion THEN "version_not_found"
    ELSE IF ~metadata THEN "metadata_missing"
    ELSE IF persist = "raises" THEN "persist_raised"
    ELSE "created"

\* replan_workflow(workflow_id, version_id, completed_steps, failed_steps);
\* persist is what create_version does ("ok" or "raises").
ReplanWorkflow(version_id, completed, failed, persist) ==
    /\ UNCHANGED <<execVars, runVars, commVars>>
    /\ LET version == get_version(versions, current_version, version_id)
           outcome == replan_outcome_of(version, has_metadata, persist)
       IN  IF outcome # "created"
           THEN /\ replan_ret' = NoId
                /\ replan_outcome' = outcome
                /\ UNCHANGED <<versions, current_version, last_replan>>
           ELSE LET new == create_version(versions,
                               new_steps(version.steps, completed, failed),
                               "workflow_planner", version.version_id)
                IN  /\ Len(versions) < MaxVersions
                    /\ versions' = Append(versions, new)
                    /\ current_version' = new.version_id
                    /\ replan_ret' = new.version_id
                    /\ last_replan' = [source |-> version.version_id,
                                       completed_steps |-> completed,
                                       failed_steps |-> failed,
                                       returned |-> new.version_id]
                    /\ replan_outcome' = "created"
    /\ UNCHANGED has_metadata

\* Arguments of replan_workflow: None, the id of a version, or an id of none;
\* two lists of step names with no name in both.
VersionIds == {NoId} \cup (1..(Len(versions) + 1))

NameLists == {ListOf(S) : S \in SUBSET StepNames}

\* When create_version raises, nothing computed from the two lists is kept:
\* one pair of lists stands for all of them.
PlanNext ==
    \/ \E version_id \in VersionIds, completed \in NameLists, failed \in NameLists :
          /\ Range(completed) \cap Range(failed) = {}
          /\ ReplanWorkflow(version_id, completed, failed, "ok")
    \/ \E version_id \in VersionIds :
          ReplanWorkflow(version_id, <<>>, <<>>, "raises")

\* The executor at rest, for the specifications of the other components.
ExecIdle ==
    /\ version_steps = <<>>
    /\ x_pc = "done"
    /\ inner_loop_iterations = 0
    /\ completed_steps = <<>>
    /\ failed_steps = <<>>
    /\ skipped_steps = <<>>
    /\ executable_steps = <<>>
    /\ selected_agent = None
    /\ last_result = NoResult
    /\ executed = <<>>
    /\ all_success = TRUE
    /\ x_status = None

(***************************************************************************)
(* OrchestratorAgent.run_task and execute_step                             *)
(***************************************************************************)
PlanStep(step_id, depends_on) ==
    [step_id |-> step_id, status |-> "pending", depends_on |-> depends_on]

\* Plans create_initial_plan and _replan_workflow get from the language model.
RunPlans ==
    UNION {{[i \in 1..n |-> PlanStep(NameSeq[i], d[i])] : d \in [1..n -> DepLists]} :
              n \in 0..MaxRunSteps}

\* OrchestratorAgent._get_executable_steps
OrchestratorAgent_get_executable_steps(plan, completed) ==
    SelectSeq(plan, LAMBDA step :
        /\ step.status # "completed"
        /\ ~In(step.step_id, completed)
        /\ \A k \in 1..Len(step.depends_on) : In(step.depends_on[k], completed))

\* OrchestratorAgent._handle_step_failure: "retry" while the ledger's retry
\* count is below max_task_retries, else the outcome of the replan attempt.
_handle_step_failure(current_retry_count, new_plan) ==
    IF current_retry_count < max_task_retries
    THEN [status |-> "retry", retry_count |-> current_retry_count + 1,
          replanned |-> FALSE, replan_attempted |-> FALSE]
    ELSE IF new_plan # None
    THEN [status |-> "success", retry_count |-> current_retry_count,
          replanned |-> TRUE, replan_attempted |-> TRUE]
    ELSE [status |-> "error", retry_count |-> current_retry_count,
          replanned |-> FALSE, replan_attempted |-> TRUE]

NoExecs == [n \in StepNames |-> 0]

\* ProgressLedger.add_entry (ledgers/base.py, lines 45-47).
add_entry_keep_latest(es, entry) == <<entry>>

add_entry(es, entry) == Append(es, entry)

RunInit ==
    /\ task_plan \in RunPlans
    /\ pl_status = "planning"
    /\ pl_completed = <<>>
    /\ retry_count = 0
    /\ last_entry = "planning"
    /\ planning_attempts = 0
    /\ r_pc = "inner"
    /\ final_status = None
    /\ final_error = None
    /\ n_exec = 0
    /\ step_retries = NoExecs
    /\ execs_since_replan = NoExecs
    /\ replan_for = None
    /\ replan_failed = FALSE
    /\ current_plan_version = 1
    /\ entries = add_entry(<<>>, "planning")

\* run_task at rest, for the specifications of the other components.
RunIdle ==
    /\ task_plan = <<>>
    /\ pl_status = "not_started"
    /\ pl_completed = <<>>
    /\ retry_count = 0
    /\ last_entry = None
    /\ planning_attempts = 0
    /\ r_pc = "done"
    /\ final_status = None
    /\ final_error = None
    /\ n_exec = 0
    /\ step_retries = NoExecs
    /\ execs_since_replan = NoExecs
    /\ replan_for = None
    /\ replan_failed = FALSE
    /\ current_plan_version = 1
    /\ entries = <<>>

\* Lines 645-664: the dict run_task returns.
Finalize(status) ==
    /\ r_pc' = "done"
    /\ final_status' = IF status = "completed" THEN "success" ELSE "error"
    /\ final_error' = IF status = "completed" THEN None ELSE "Task failed to complete"

\* Line 595.
AllCompleted(plan) == \A i \in 1..Len(plan) : plan[i].status = "completed"

\* One pass of the inner while loop (lines 585-597): execute_step (lines
\* 450-533), then the all-completed test.
\*   outcome  : status of the dict _execute_step returns
\*   new_plan : what _replan_workflow returns to _handle_step_failure
RunExecuteStep(outcome, new_plan) ==
    /\ UNCHANGED <<execVars, planVars, commVars>>
    /\ r_pc = "inner"
    /\ pl_status \notin {"completed", "failed", "blocked"}
    /\ LET exe == OrchestratorAgent_get_executable_steps(task_plan, pl_completed)
       IN  IF exe = <<>>
           THEN /\ pl_status' = IF AllCompleted(task_plan) THEN "completed" ELSE "blocked"
                /\ last_entry' = "blocked"
                /\ entries' = add_entry(entries, "blocked")
                /\ UNCHANGED <<task_plan, pl_completed, retry_count, n_exec,
                               step_retries, execs_since_replan, replan_for,
                               replan_failed>>
           ELSE LET current_step == exe[1]
                    id == current_step.step_id
                    at == CHOOSE i \in 1..Len(task_plan) : task_plan[i].step_id = id
                    retry_result == _handle_step_failure(retry_count, new_plan)
                    status_after ==
                        IF outcome = "success" THEN "completed"
                        ELSE IF retry_result.status = "retry" THEN "pending"
                        ELSE "failed"
                    plan_after == [task_plan EXCEPT ![at].status = status_after]
                IN  /\ n_exec < MaxExecs
                    /\ n_exec' = n_exec + 1
                    /\ task_plan' = plan_after
                    /\ pl_status' =
                           IF AllCompleted(plan_after) THEN "completed" ELSE "executing"
                    /\ IF outcome = "success"
                       THEN /\ pl_completed' = Append(pl_completed, id)
                            /\ last_entry' = "success"
                            /\ entries' = add_entry(add_entry(entries, "executing"),
                                                    "success")
                            /\ execs_since_replan' =
                                   [execs_since_replan EXCEPT ![id] = @ + 1]
                            /\ UNCHANGED <<retry_count, step_retries, replan_for,
                                           replan_failed>>
                       ELSE /\ UNCHANGED pl_completed
                            /\ retry_count' = retry_result.retry_count
                            /\ last_entry' =
                                   IF retry_result.replanned THEN "replanned" ELSE "failed"
                            /\ entries' =
                                   LET es == add_entry(add_entry(entries, "executing"),
                                                       "failed")
                                   IN  IF retry_result.replanned
                                       THEN add_entry(es, "replanned") ELSE es
                            /\ IF retry_result.status = "retry"
                               THEN /\ step_retries' = [step_retries EXCEPT ![id] = @ + 1]
                                    /\ execs_since_replan' =
                                           [execs_since_replan EXCEPT ![id] = @ + 1]
                                    /\ UNCHANGED <<replan_for, replan_failed>>
                               ELSE /\ replan_for' = id
                                    /\ replan_failed' =
                                           (replan_failed \/ ~retry_result.replanned)
                                    /\ execs_since_replan' = NoExecs
                                    /\ UNCHANGED step_retries
    /\ UNCHANGED <<planning_attempts, r_pc, final_status, final_error,
                   current_plan_version>>

\* After the inner loop (lines 599-643), with the test of the outer loop that
\* follows `continue` (line 583) and the return (lines 645-664).
\*   needs_replanning : progress["needs_replanning"] of _evaluate_progress
\*   new_plan         : what _replan_workflow returns (<<>> for None or [])
AfterInner(needs_replanning, new_plan) ==
    /\ UNCHANGED <<execVars, planVars, commVars>>
    /\ r_pc = "inner"
    /\ pl_status \in {"completed", "failed", "blocked"}
    /\ UNCHANGED <<pl_completed, retry_count, n_exec, step_retries, replan_for,
                   current_plan_version>>
    /\ IF pl_status \in {"completed", "failed"}
       THEN /\ Finalize(pl_status)
            /\ UNCHANGED <<task_plan, pl_status, last_entry, planning_attempts,
                           execs_since_replan, replan_failed, entries>>
       ELSE /\ planning_attempts' = planning_attempts + 1
            /\ IF needs_replanning /\ new_plan # <<>>
               THEN /\ task_plan' = new_plan
                    /\ last_entry' = "replanned"
                    /\ entries' = add_entry(add_entry(entries, "replanning"),
                                            "replanned")
                    /\ execs_since_replan' = NoExecs
                    /\ UNCHANGED <<pl_status, replan_failed>>
                    /\ IF planning_attempts' < max_planning_attempts
                       THEN UNCHANGED <<r_pc, final_status, final_error>>
                       ELSE Finalize(pl_status)
               ELSE /\ pl_status' = "failed"
                    /\ last_entry' = "failed"
                    /\ entries' = add_entry(add_entry(entries, "replanning"),
                                            "failed")
                    /\ replan_failed' = (replan_failed \/ needs_replanning)
                    /\ execs_since_replan' =
                           IF needs_replanning THEN NoExecs ELSE execs_since_replan
                    /\ UNCHANGED task_plan
                    /\ Finalize("failed")

RunNext ==
    \/ \E outcome \in {"success", "error"}, new_plan \in {None, "plan"} :
           RunExecuteStep(outcome, new_plan)
    \/ \E needs_replanning \in BOOLEAN, new_plan \in RunPlans :
           AfterInner(needs_replanning, new_plan)

(***************************************************************************)
(* communication/protocol.py: MessageBus and CommunicationProtocol, with   *)
(* the handlers agents/base.py registers.                                  *)
(***************************************************************************)
\* a1 is a BaseAgent (its protocol has BaseAgent's handlers); a2 is an agent
\* whose protocol has no handler registered; nobody subscribes as "ghost".
Agents == {"a1", "a2"}

Ghost == "ghost"

\* A recipient argument that is not a str (None).
NotAStr == "<not a str>"

MessageBusId == "message_bus"

\* Message ids are 1, 2, ...; 0 stands for None (no correlation id).
NoCorrelation == 0

Message(id, type, sender, recipient, corr, hint, status) ==
    [message_id |-> id, message_type |-> type, sender |-> sender,
     recipient |-> recipient, correlation_id |-> corr, recovery_hint |-> hint,
     status |-> status]

NoMessage == Message(0, None, None, None, NoCorrelation, None, None)

\* Content payloads, as the set of <<key, type of the value>> they hold.
ContentNotADict == [is_dict |-> FALSE, fields |-> {}, status |-> None]

Content(fields) == [is_dict |-> TRUE, fields |-> fields, status |-> None]

\* The content send_task_response builds (lines 524-529), with its "status".
TaskResponseContent(status) ==
    [is_dict |-> TRUE, fields |-> {<<"status", "str">>}, status |-> status]

TaskRequestContent ==
    Content({<<"task_description", "str">>, <<"parameters", "dict">>})

QueryContent == Content({<<"query", "str">>})

Contents ==
    {ContentNotADict, Content({}), TaskRequestContent, QueryContent,
     Content({<<"task_description", "str">>}),
     Content({<<"parameters", "dict">>}),
     Content({<<"task_description", "int">>, <<"parameters", "dict">>}),
     Content({<<"query", "int">>})}

TypeOf(recipient) == IF recipient = NotAStr THEN "NoneType" ELSE "str"

\* ErrorHandler.validate_message(message, required_fields, field_types): TRUE
\* when it accepts, FALSE when it raises MessageValidationError.
validate_message(message, required_fields, field_types) ==
    /\ \A k \in required_fields :
           \E f \in message : f[1] = k /\ f[2] # "NoneType"
    /\ \A t \in field_types :
           \A f \in message : f[1] = t[1] => f[2] = t[2]

\* Mutant: no validation by message type.
_validate_message_top_level_only(message, content) ==
    validate_message(
        {<<"message_id", "str">>, <<"message_type", "MessageType">>,
         <<"sender", "str">>, <<"recipient", TypeOf(message.recipient)>>,
         <<"content", IF content.is_dict THEN "dict" ELSE "other">>},
        {"message_id", "message_type", "sender", "recipient", "content"},
        {<<"message_id", "str">>, <<"sender", "str">>, <<"recipient", "str">>,
         <<"content", "dict">>})

\* CommunicationProtocol._validate_message, lines 420-468.
_validate_message(message, content) ==
    /\ validate_message(
           {<<"message_id", "str">>, <<"message_type", "MessageType">>,
            <<"sender", "str">>, <<"recipient", TypeOf(message.recipient)>>,
            <<"content", IF content.is_dict THEN "dict" ELSE "other">>},
           {"message_id", "message_type", "sender", "recipient", "content"},
           {<<"message_id", "str">>, <<"sender", "str">>,
            <<"recipient", "str">>, <<"content", "dict">>})
    /\ IF message.message_type = "TASK_REQUEST"
       THEN validate_message(content.fields,
                             {"task_description", "parameters"},
                             {<<"task_description", "str">>,
                              <<"parameters", "dict">>})
       ELSE IF message.message_type = "QUERY"
       THEN validate_message(content.fields, {"query"}, {<<"query", "str">>})
       ELSE TRUE

\* ErrorHandler(max_retries=3, retry_delay=1.0), line 249.
max_retries == 3

\* What MessageBus.publish does on the attempts of one send: the first
\* `failing` attempts raise an exception of class `raises`.
PublishOutcome(failing, raises) == [failing |-> failing, raises |-> raises]

PublishWorks == PublishOutcome(0, None)

\* ErrorHandler.with_retries(operation, retry_exceptions=[CommunicationError]):
\* the operation is tried up to max_retries times while it raises a
\* CommunicationError; any other exception is raised at once.
with_retries(publish) ==
    IF publish.failing = 0 THEN [attempts |-> 1, raised |-> None]
    ELSE IF publish.raises # "CommunicationError"
    THEN [attempts |-> 1, raised |-> publish.raises]
    ELSE IF publish.failing >= max_retries
    THEN [attempts |-> max_retries, raised |-> "MessageDeliveryError"]
    ELSE [attempts |-> publish.failing + 1, raised |-> None]

\* Mutant: every attempt of the retry wrapper leaves a copy in the queue.
send_message_enqueue_per_attempt(queue, id, sender, recipient, message_type, content, correlation_id, validate, publish) ==
    LET message == Message(id + 1, message_type, sender, recipient,
                           correlation_id, None, content.status)
        r == with_retries(publish)
    IN  IF validate /\ ~_validate_message(message, content)
        THEN [raised |-> "MessageValidationError", returned |-> 0,
              attempts |-> 0, queue |-> queue, next_id |-> id]
        ELSE [raised |-> IF r.raised = None THEN None ELSE "MessageDeliveryError",
              returned |-> IF r.raised = None THEN id + 1 ELSE 0,
              attempts |-> r.attempts,
              queue |-> queue \o [i \in 1..r.attempts |-> message],
              next_id |-> id + 1]

\* CommunicationProtocol.send_message, lines 254-335: what it raises or
\* returns, and the queue and the ids afterwards.
send_message(queue, id, sender, recipient, message_type, content, correlation_id, validate, publish) ==
    LET message == Message(id + 1, message_type, sender, recipient,
                           correlation_id, None, content.status)
        r == with_retries(publish)
    IN  IF validate /\ ~_validate_message(message, content)
        THEN [raised |-> "MessageValidationError", returned |-> 0,
              attempts |-> 0, queue |-> queue, next_id |-> id]
        ELSE IF r.raised # None
        THEN \* lines 317-333: wrapped unless it is an AgenticKernelError
             [raised |-> "MessageDeliveryError", returned |-> 0,
              attempts |-> r.attempts, queue |-> queue, next_id |-> id]
        ELSE [raised |-> None, returned |-> id + 1, attempts |-> r.attempts,
              queue |-> Append(queue, message), next_id |-> id + 1]

\* What a handler call leaves: the exception it raised (None when it
\* returned), the queue and the ids.
Handled(raised, queue, id) == [raised |-> raised, queue |-> queue, next_id |-> id]

\* CommunicationProtocol.send_error, lines 616-681: building the logged
\* CommunicationError evaluates ErrorSeverity.INFO (line 668), a name the
\* module neither defines nor imports, so the call raises NameError before it
\* reaches send_message.
send_error(queue, id, sender, recipient, error_type, hint, correlation_id) ==
    Handled("NameError", queue, id)

\* BaseAgent._setup_message_handlers, lines 133-157 (a1); a2 registers none.
message_handlers(agent) ==
    IF agent = "a1" THEN {"TASK_REQUEST", "QUERY"} ELSE {}

\* What execute(task) / handle_query(query, context) does for one message.
HandlerOutcomes == {"completed", "failed", "raises"}

\* BaseAgent._handle_task_request (lines 173-207) and BaseAgent._handle_query
\* (lines 209-236): the reply is sent with the request's id as correlation
\* id; an exception in the try block leads to send_error, called from the
\* except block.
_handle_request(agent, message, outcome, queue, id, reply_type) ==
    IF outcome = "raises"
    THEN send_error(queue, id, agent, message.sender, "task_execution_failed",
                    None, NoCorrelation)
    ELSE LET s == send_message(queue, id, agent, message.sender, reply_type,
                               IF reply_type = "TASK_RESPONSE"
                               THEN TaskResponseContent(outcome)
                               ELSE Content({<<"status", "str">>}),
                               message.message_id, TRUE, PublishWorks)
         IN  IF s.raised # None
             THEN send_error(s.queue, s.next_id, agent, message.sender,
                             "task_execution_failed", None, NoCorrelation)
             ELSE Handled(None, s.queue, s.next_id)

\* CommunicationProtocol._handle_message, lines 349-418.
_handle_message(agent, message, outcome, queue, id) ==
    IF message.message_type \in message_handlers(agent)
    THEN LET h == _handle_request(agent, message, outcome, queue, id,
                     IF message.message_type = "TASK_REQUEST"
                     THEN "TASK_RESPONSE" ELSE "QUERY_RESPONSE")
         IN  IF h.raised # None
             THEN send_error(h.queue, h.next_id, agent, message.sender,
                             "CommunicationError", None, message.message_id)
             ELSE h
    ELSE send_error(queue, id, agent, message.sender, "UNHANDLED_MESSAGE_TYPE",
                    "register_handler", message.message_id)

\* The bound on message ids while the bus runs.
MaxIds == 3

\* The bound on the queue in the specification of send_message alone.
MaxSent == 2

NoSend == [recipient_type |-> "str", message_type |-> None,
           content |-> Content({}), validate |-> TRUE, publish |-> PublishWorks,
           raised |-> None, returned |-> 0, attempts |-> 0]

\* MessageBus.__init__ (lines 70-76) and one CommunicationProtocol.__init__
\* (line 252) per agent.
\* The _process_messages tasks MessageBus.start may create, in the order of
\* their creation.
MaxLoops == 2

Loops == 1..MaxLoops

\* MessageBus._processor_task is None (line 75).
NoTaskYet == 0

BusInit ==
    /\ subscribers = Agents
    /\ message_queue = <<>>
    /\ _running = FALSE
    /\ b_pc = [l \in Loops |-> "idle"]
    /\ current = [l \in Loops |-> NoMessage]
    /\ _processor_task = NoTaskYet
    /\ stop_pc = "none"
    /\ awaited_task = NoTaskYet
    /\ next_id = 0
    /\ last_delivery = "none"
    /\ last_send = NoSend

\* No bus, for the specifications of the other components.
BusIdle ==
    /\ subscribers = {}
    /\ message_queue = <<>>
    /\ _running = FALSE
    /\ b_pc = [l \in Loops |-> "idle"]
    /\ current = [l \in Loops |-> NoMessage]
    /\ _processor_task = NoTaskYet
    /\ stop_pc = "none"
    /\ awaited_task = NoTaskYet
    /\ next_id = 0
    /\ last_delivery = "none"
    /\ last_send = NoSend

otherVars ==
    <<execVars, planVars, runVars, consVars, taskVars, entryVars, extVars>>

\* MessageBus.start, lines 78-85: nothing on a running bus, else a new
\* _process_messages task.
Start ==
    /\ UNCHANGED otherVars
    /\ IF _running
       THEN UNCHANGED <<_running, b_pc, _processor_task>>
       ELSE /\ _processor_task < MaxLoops
            /\ _running' = TRUE
            /\ _processor_task' = _processor_task + 1
            /\ b_pc' = [b_pc EXCEPT ![_processor_task + 1] = "test"]
    /\ UNCHANGED <<subscribers, message_queue, current, stop_pc, awaited_task,
                   next_id, last_delivery, last_send>>

\* MessageBus.stop, lines 87-95, up to `await self._processor_task`.
Stop ==
    /\ UNCHANGED otherVars
    /\ stop_pc = "none"
    /\ IF ~_running
       THEN UNCHANGED <<_running, stop_pc, awaited_task>>
       ELSE /\ _running' = FALSE
            /\ stop_pc' = "awaiting"
            /\ awaited_task' = _processor_task
    /\ UNCHANGED <<subscribers, message_queue, b_pc, current, _processor_task,
                   next_id, last_delivery, last_send>>

\* MessageBus.stop, lines 94-95: the task it awaits has ended.
StopReturn ==
    /\ UNCHANGED otherVars
    /\ stop_pc = "awaiting"
    /\ b_pc[awaited_task] = "ended"
    /\ stop_pc' = "returned"
    /\ UNCHANGED <<subscribers, message_queue, _running, b_pc, current,
                   _processor_task, awaited_task, next_id, last_delivery,
                   last_send>>

\* MessageBus.unsubscribe, lines 107-115.
Unsubscribe(agent) ==
    /\ UNCHANGED otherVars
    /\ agent \in subscribers
    /\ subscribers' = subscribers \ {agent}
    /\ UNCHANGED <<message_queue, _running, b_pc, current, _processor_task,
                   stop_pc, awaited_task, next_id,
                   last_delivery, last_send>>

\* An agent calls CommunicationProtocol.send_message.
Send(sender, recipient, message_type, content, correlation_id, validate, publish) ==
    /\ UNCHANGED otherVars
    /\ next_id < MaxIds
    /\ LET s == send_message(message_queue, next_id, sender, recipient,
                             message_type, content, correlation_id, validate,
                             publish)
       IN  /\ message_queue' = s.queue
           /\ next_id' = s.next_id
           /\ last_send' = [recipient_type |-> TypeOf(recipient),
                            message_type |-> message_type, content |-> content,
                            validate |-> validate, publish |-> publish,
                            raised |-> s.raised, returned |-> s.returned,
                            attempts |-> s.attempts]
    /\ UNCHANGED <<subscribers, _running, b_pc, current, _processor_task,
                   stop_pc, awaited_task, last_delivery>>

\* _process_messages, line 128: the test of the while loop, by task l.
LoopTest(l) ==
    /\ UNCHANGED otherVars
    /\ b_pc[l] = "test"
    /\ b_pc' = [b_pc EXCEPT ![l] = IF _running THEN "get" ELSE "ended"]
    /\ UNCHANGED <<subscribers, message_queue, _running, current,
                   _processor_task, stop_pc, awaited_task, next_id,
                   last_delivery, last_send>>

\* _process_messages, line 130: `await self.message_queue.get()` of task l
\* returns once the queue holds a message. While the bus runs, the ids the
\* iteration may need must be left.
LoopGet(l) ==
    /\ UNCHANGED otherVars
    /\ b_pc[l] = "get"
    /\ message_queue # <<>>
    /\ _running => next_id < MaxIds
    /\ current' = [current EXCEPT ![l] = Head(message_queue)]
    /\ message_queue' = Tail(message_queue)
    /\ b_pc' = [b_pc EXCEPT ![l] = "handling"]
    /\ UNCHANGED <<subscribers, _running, _processor_task, stop_pc,
                   awaited_task, next_id, last_delivery, last_send>>

BusError(id, message, hint) ==
    Message(id, "ERROR", MessageBusId, message.sender, message.message_id, hint,
            None)

\* Mutant: the error goes back without the id of the undelivered message.
deliver_uncorrelated(message, outcome, subs, queue, id) ==
    IF message.recipient \in subs
    THEN LET h == _handle_message(message.recipient, message, outcome, queue, id)
         IN  IF h.raised # None
             THEN [delivery |-> "handler_raised", next_id |-> h.next_id + 1,
                   queue |-> Append(h.queue,
                       Message(h.next_id + 1, "ERROR", MessageBusId,
                               message.sender, NoCorrelation, "delivery_failed",
                               None))]
             ELSE [delivery |-> "delivered", next_id |-> h.next_id,
                   queue |-> h.queue]
    ELSE [delivery |-> "no_subscriber", next_id |-> id + 1,
          queue |-> Append(queue, BusError(id + 1, message, "verify_recipient"))]

\* _process_messages, lines 132-209: one message is delivered, or an ERROR
\* message goes back to its sender.
deliver(message, outcome, subs, queue, id) ==
    IF message.recipient \in subs
    THEN LET h == _handle_message(message.recipient, message, outcome, queue, id)
         IN  IF h.raised # None
             THEN [delivery |-> "handler_raised", next_id |-> h.next_id + 1,
                   queue |-> Append(h.queue,
                       BusError(h.next_id + 1, message, "delivery_failed"))]
             ELSE [delivery |-> "delivered", next_id |-> h.next_id,
                   queue |-> h.queue]
    ELSE [delivery |-> "no_subscriber", next_id |-> id + 1,
          queue |-> Append(queue, BusError(id + 1, message, "verify_recipient"))]

\* _process_messages, lines 132-209, then back to the test of the loop.
LoopHandle(l, outcome) ==
    /\ UNCHANGED otherVars
    /\ b_pc[l] = "handling"
    /\ LET d == deliver(current[l], outcome, subscribers, message_queue, next_id)
       IN  /\ message_queue' = d.queue
           /\ next_id' = d.next_id
           /\ last_delivery' = d.delivery
    /\ current' = [current EXCEPT ![l] = NoMessage]
    /\ b_pc' = [b_pc EXCEPT ![l] = "test"]
    /\ UNCHANGED <<subscribers, _running, _processor_task, stop_pc,
                   awaited_task, last_send>>

\* The arguments agents send with while the bus runs: valid ones.
ValidContent(message_type) ==
    IF message_type = "TASK_REQUEST" THEN TaskRequestContent
    ELSE IF message_type = "QUERY" THEN QueryContent
    ELSE Content({<<"status", "str">>})

BusNext ==
    \/ Start
    \/ Stop
    \/ StopReturn
    \/ Unsubscribe("a2")
    \/ \E recipient \in Agents \cup {Ghost},
          message_type \in {"TASK_REQUEST", "STATUS_UPDATE"} :
           Send("a2", recipient, message_type, ValidContent(message_type),
                NoCorrelation, TRUE, PublishWorks)
    \/ \E l \in Loops : LoopTest(l)
    \/ \E l \in Loops : LoopGet(l)
    \/ \E l \in Loops, outcome \in HandlerOutcomes : LoopHandle(l, outcome)

\* A CommunicationError on the first 1..max_retries+1 attempts, or another
\* exception on the first.
PublishOutcomes ==
    {PublishWorks, PublishOutcome(1, "Exception")} \cup
    {PublishOutcome(n, "CommunicationError") : n \in 1..(max_retries + 1)}

\* send_message called on its own, with every kind of argument; publishing
\* fails only in calls whose message can reach it.
SendNext ==
    \E recipient \in {"a1", NotAStr},
       message_type \in {"TASK_REQUEST", "QUERY", "STATUS_UPDATE"},
       content \in Contents, validate \in BOOLEAN, publish \in PublishOutcomes :
        /\ Len(message_queue) < MaxSent
        /\ publish # PublishWorks =>
               (recipient = "a1" /\ content = ValidContent(message_type))
        /\ Send("a2", recipient, message_type, content, NoCorrelation,
                validate, publish)


(***************************************************************************)
(* agents/core/consensus.py: the requester's side of one consensus         *)
(* process; the process state is kept by its CollaborativeProtocol.        *)
(***************************************************************************)
\* The registered options, in registration order, and the invited agents.
Options == <<"X", "Y">>

Participants == {"p1", "p2", "p3"}

\* The bound on the CONSENSUS_VOTE messages handled.
MaxVotes == 4

\* The outcome of a tally without consensus: not one of the options.
NoConsensus == "no consensus"

Vote(participant, vote) == [participant |-> participant, vote |-> vote]

\* CollaborativeProtocol.record_vote: the vote is kept under the voter's id
\* (a second vote of a voter replaces the first); a process whose result has
\* been tallied accepts no vote.
record_vote(vs, result, participant, vote) ==
    IF result # None THEN vs
    ELSE IF \E i \in DOMAIN vs : vs[i].participant = participant
    THEN [i \in DOMAIN vs |-> IF vs[i].participant = participant
                              THEN Vote(participant, vote) ELSE vs[i]]
    ELSE Append(vs, Vote(participant, vote))

\* CollaborativeProtocol.is_consensus_reached: min_participants have voted.
is_consensus_reached(vs, result, minimum) ==
    result # None \/ Len(vs) >= minimum

VoteCount(vs, option) == Cardinality({i \in DOMAIN vs : vs[i].vote = option})

\* majority: the options are gone through in registration order and a later
\* option wins only with more votes.
RECURSIVE majority(_, _, _)
majority(options, vs, best) ==
    IF options = <<>> THEN best
    ELSE majority(Tail(options), vs,
                  IF best = None \/ VoteCount(vs, Head(options)) > VoteCount(vs, best)
                  THEN Head(options) ELSE best)

\* unanimous: the common vote, when all the votes are the same.
unanimous(vs) ==
    IF \A i \in DOMAIN vs : vs[i].vote = vs[1].vote THEN vs[1].vote
    ELSE NoConsensus

\* Mutant: a tie goes to the option voted for first.
tally_first_vote_wins(mechanism, options, vs) ==
    IF mechanism = "majority"
    THEN IF \E o \in Range(options) : VoteCount(vs, o) > VoteCount(vs, vs[1].vote)
         THEN majority(options, vs, None) ELSE vs[1].vote
    ELSE unanimous(vs)

\* Mutant: unanimous falls back to the majority when the votes differ.
tally_unanimous_picks(mechanism, options, vs) == majority(options, vs, None)

\* CollaborativeProtocol.get_consensus_result: the tally of the mechanism.
tally(mechanism, options, vs) ==
    IF mechanism = "majority" THEN majority(options, vs, None)
    ELSE unanimous(vs)

\* ConsensusMixin.request_consensus, lines 132-203, has registered the
\* process and sent the requests.
ConsInit ==
    /\ voting_mechanism \in {"majority", "unanimous"}
    /\ min_participants \in 1..Cardinality(Participants)
    /\ votes = <<>>
    /\ consensus_result = None
    /\ results_sent = [p \in Participants |-> 0]
    /\ votes_handled = 0

\* No consensus process, for the specifications of the other components.
ConsIdle ==
    /\ voting_mechanism = None
    /\ min_participants = 0
    /\ votes = <<>>
    /\ consensus_result = None
    /\ results_sent = [p \in Participants |-> 0]
    /\ votes_handled = 0


\* ConsensusMixin._send_consensus_result, lines 254-295: one CONSENSUS_RESULT
\* message per participant.
_send_consensus_result(sent) == [p \in Participants |-> sent[p] + 1]

\* ConsensusMixin._handle_consensus_vote, lines 64-104, for a CONSENSUS_VOTE
\* from `sender`.
_handle_consensus_vote(sender, vote) ==
    /\ UNCHANGED <<execVars, planVars, runVars, busVars, taskVars, entryVars,
                   extVars>>
    /\ votes_handled < MaxVotes
    /\ votes_handled' = votes_handled + 1
    /\ LET vs == record_vote(votes, consensus_result, sender, vote)
       IN  /\ votes' = vs
           /\ IF is_consensus_reached(vs, consensus_result, min_participants)
              THEN /\ consensus_result' =
                          IF consensus_result # None THEN consensus_result
                          ELSE tally(voting_mechanism, Options, vs)
                   /\ results_sent' = _send_consensus_result(results_sent)
              ELSE UNCHANGED <<consensus_result, results_sent>>
    /\ UNCHANGED <<voting_mechanism, min_participants>>

ConsNext ==
    \E sender \in Participants, vote \in Range(Options) :
        _handle_consensus_vote(sender, vote)

(***************************************************************************)
(* The A2A TaskManager (communication/a2a/task.py).  A task is its status  *)
(* state, the length of its history (NoHistory when it keeps none) and    *)
(* number of its artifacts.  No caller subscribes, so task_subscribers is  *)
(* empty and the _notify_* methods return at their first test.             *)
(***************************************************************************)
TaskIds == {"t1", "t2"}

MaxHistory == 4

MaxArtifacts == 2

\* The TaskState members task.py uses.
TaskStates == {"submitted", "working", "completed", "canceled", "failed"}

\* cancel_task, line 146.
FinalStates == {"completed", "canceled", "failed"}

\* Task.history is None: the task keeps no history (line 81).
NoHistory == -1

NoTask == [state |-> "None", history |-> NoHistory, artifacts |-> 0]

NoCall == [op |-> "None", id |-> "None", raised |-> "None"]

Call(op, id, raised) == [op |-> op, id |-> id, raised |-> raised]

\* list.append on task.history, with the lazy creation of lines 53-54.
history_append(history) == IF history = NoHistory THEN 1 ELSE history + 1

\* update_task_status, lines 221-232, on a task that exists.
set_status(task, state, with_message) ==
    [task EXCEPT !.state = state,
                 !.history = IF with_message /\ task.history # NoHistory
                             THEN task.history + 1 ELSE task.history]

\* _process_task_message: TaskManager's (lines 348-370) completes the task,
\* InMemoryTaskManager's (lines 376-408) first adds the echo artifact.
_process_task_message(task, in_memory) ==
    set_status([task EXCEPT !.artifacts = IF in_memory THEN @ + 1 ELSE @],
               "completed", TRUE)

MaxSubs == 1

MaxEvents == 2

Subs == 1..MaxSubs

\* The None that ends a subscriber's stream (line 324).
EndOfStream == [kind |-> "None", state |-> "None", final |-> FALSE]

\* TaskStatusUpdateEvent, lines 307-315.
TaskStatusUpdateEvent(state) ==
    [kind |-> "status", state |-> state, final |-> state \in FinalStates]

\* TaskArtifactUpdateEvent, lines 338-342.
TaskArtifactUpdateEvent == [kind |-> "artifact", state |-> "None", final |-> FALSE]

put_all(queues, receivers, event) ==
    [s \in Subs |-> IF s \in receivers THEN Append(queues[s], event) ELSE queues[s]]

\* _notify_status_update, lines 297-325, on the subscriber table and the
\* queues: nothing without subscribers; else the event goes to each of
\* them, and after a final one the None and the end of the table entry.
_notify_status_update(n, id, state) ==
    IF n.subscribers[id] = {}
    THEN n
    ELSE LET event == TaskStatusUpdateEvent(state)
             queued == put_all(n.queues, n.subscribers[id], event)
         IN  IF event.final
             THEN [subscribers |-> [n.subscribers EXCEPT ![id] = {}],
                   queues |-> put_all(queued, n.subscribers[id], EndOfStream)]
             ELSE [subscribers |-> n.subscribers, queues |-> queued]

\* _notify_artifact_update, lines 327-346.
_notify_artifact_update(n, id) ==
    [subscribers |-> n.subscribers,
     queues |-> put_all(n.queues, n.subscribers[id], TaskArtifactUpdateEvent)]

\* The subscriber table and the queues as they are.
Notifications == [subscribers |-> task_subscribers, queues |-> sub_queue]

\* The notifications of _process_task_message: the artifact of
\* InMemoryTaskManager (line 393), then the completion.
_process_task_message_notify(n, id, in_memory) ==
    _notify_status_update(
        IF in_memory THEN _notify_artifact_update(n, id) ELSE n, id, "completed")

\* The events yielded and still queued never pass MaxEvents.
EventRoom(n) ==
    \A s \in Subs :
        Len(SelectSeq(n.queues[s], LAMBDA e : e # EndOfStream)) + Len(sub_got[s])
            <= MaxEvents

Notify(n) ==
    /\ EventRoom(n)
    /\ task_subscribers' = n.subscribers
    /\ sub_queue' = n.queues
    /\ UNCHANGED <<sub_pc, sub_task, sub_got, sub_late>>

subVars == <<task_subscribers, sub_queue, sub_pc, sub_task, sub_got, sub_late>>

TaskInit ==
    /\ tasks = [id \in TaskIds |-> NoTask]
    /\ tm_last = NoCall
    /\ task_subscribers = [id \in TaskIds |-> {}]
    /\ sub_queue = [s \in Subs |-> <<>>]
    /\ sub_pc = [s \in Subs |-> "none"]
    /\ sub_task = [s \in Subs |-> None]
    /\ sub_got = [s \in Subs |-> <<>>]
    /\ sub_late = [s \in Subs |-> FALSE]

\* No task manager, for the specifications of the other components.
TaskIdle == TaskInit


taskOthers ==
    <<execVars, planVars, runVars, busVars, consVars, entryVars, extVars>>

HistoryRoom(task, n) == task.history = NoHistory \/ task.history + n <= MaxHistory

\* TaskManager.process_task, lines 35-101.
process_task(id, history_length, in_memory) ==
    /\ UNCHANGED taskOthers
    /\ HistoryRoom(tasks[id], 2)
    /\ tasks[id].artifacts < MaxArtifacts
    /\ tm_last' = Call("process_task", id, "None")
    /\ Notify(_process_task_message_notify(
                  _notify_status_update(Notifications, id, "working"),
                  id, in_memory))
    /\ IF tasks[id] # NoTask
       THEN LET task == [tasks[id] EXCEPT
                            !.history = history_append(tasks[id].history),
                            !.state = "working"]
            IN  tasks' = [tasks EXCEPT
                              ![id] = _process_task_message(task, in_memory)]
       ELSE LET task == [state |-> "working",
                         history |-> IF history_length THEN 1 ELSE NoHistory,
                         artifacts |-> 0]
            IN  tasks' = [tasks EXCEPT
                              ![id] = _process_task_message(task, in_memory)]

\* TaskManager.get_task, lines 103-125.
get_task(id, history_length) ==
    /\ UNCHANGED taskOthers
    /\ UNCHANGED subVars
    /\ IF tasks[id] = NoTask
       THEN /\ tm_last' = Call("get_task", id, "KeyError")
            /\ UNCHANGED tasks
       ELSE /\ tm_last' = Call("get_task", id, "None")
            /\ tasks' = [tasks EXCEPT ![id].history =
                            IF @ # NoHistory /\ @ > history_length
                            THEN history_length ELSE @]

\* TaskManager.cancel_task, lines 127-159.
cancel_task(id) ==
    /\ UNCHANGED taskOthers
    /\ IF tasks[id] = NoTask
       THEN /\ tm_last' = Call("cancel_task", id, "KeyError")
            /\ UNCHANGED <<tasks, subVars>>
       ELSE IF tasks[id].state \in FinalStates
       THEN /\ tm_last' = Call("cancel_task", id, "ValueError")
            /\ UNCHANGED <<tasks, subVars>>
       ELSE /\ tm_last' = Call("cancel_task", id, "None")
            /\ tasks' = [tasks EXCEPT ![id].state = "canceled"]
            /\ Notify(_notify_status_update(Notifications, id, "canceled"))

\* TaskManager.update_task_status, lines 199-237.
update_task_status(id, state, with_message) ==
    /\ UNCHANGED taskOthers
    /\ IF tasks[id] = NoTask
       THEN /\ tm_last' = Call("update_task_status", id, "KeyError")
            /\ UNCHANGED <<tasks, subVars>>
       ELSE /\ HistoryRoom(tasks[id], 1)
            /\ tm_last' = Call("update_task_status", id, "None")
            /\ tasks' = [tasks EXCEPT
                             ![id] = set_status(@, state, with_message)]
            /\ Notify(_notify_status_update(Notifications, id, state))

\* TaskManager.add_task_artifact, lines 239-295: a chunk appended to an
\* artifact the task has, or a new artifact.
add_task_artifact(id, append, index) ==
    /\ UNCHANGED taskOthers
    /\ IF tasks[id] = NoTask
       THEN /\ tm_last' = Call("add_task_artifact", id, "KeyError")
            /\ UNCHANGED <<tasks, subVars>>
       ELSE /\ tm_last' = Call("add_task_artifact", id, "None")
            /\ Notify(_notify_artifact_update(Notifications, id))
            /\ IF append /\ index < tasks[id].artifacts
               THEN UNCHANGED tasks
               ELSE /\ tasks[id].artifacts < MaxArtifacts
                    /\ tasks' = [tasks EXCEPT ![id].artifacts = @ + 1]

\* subscribe_to_task, lines 161-182, when the consumer starts to iterate:
\* KeyError for an unknown task, else a new queue in the subscriber table.
subscribe_to_task(s, id) ==
    /\ UNCHANGED taskOthers
    /\ sub_pc[s] = "none"
    /\ IF tasks[id] = NoTask
       THEN /\ tm_last' = Call("subscribe_to_task", id, "KeyError")
            /\ UNCHANGED <<tasks, subVars>>
       ELSE /\ tm_last' = Call("subscribe_to_task", id, "None")
            /\ task_subscribers' = [task_subscribers EXCEPT ![id] = @ \cup {s}]
            /\ sub_pc' = [sub_pc EXCEPT ![s] = "waiting"]
            /\ sub_task' = [sub_task EXCEPT ![s] = id]
            /\ sub_late' = [sub_late EXCEPT ![s] = tasks[id].state \in FinalStates]
            /\ UNCHANGED <<tasks, sub_queue, sub_got>>

\* subscribe_to_task, lines 186-197: `await queue.get()` returns; an event
\* is yielded, None ends the generator and the finally block takes the
\* queue out of the table.
SubscriberGet(s) ==
    /\ UNCHANGED taskOthers
    /\ sub_pc[s] = "waiting"
    /\ sub_queue[s] # <<>>
    /\ sub_queue' = [sub_queue EXCEPT ![s] = Tail(@)]
    /\ IF Head(sub_queue[s]) = EndOfStream
       THEN /\ sub_pc' = [sub_pc EXCEPT ![s] = "ended"]
            /\ task_subscribers' =
                   [task_subscribers EXCEPT ![sub_task[s]] = @ \ {s}]
            /\ UNCHANGED sub_got
       ELSE /\ sub_got' = [sub_got EXCEPT ![s] = Append(@, Head(sub_queue[s]))]
            /\ UNCHANGED <<sub_pc, task_subscribers>>
    /\ UNCHANGED <<tasks, tm_last, sub_task, sub_late>>

\* The task manager with subscribers, for tasks without history and without
\* artifacts.
SubscribeNext ==
    \/ \E s \in Subs, id \in TaskIds : subscribe_to_task(s, id)
    \/ \E s \in Subs : SubscriberGet(s)
    \/ \E id \in TaskIds : process_task(id, FALSE, FALSE)
    \/ \E id \in TaskIds : cancel_task(id)
    \/ \E id \in TaskIds, state \in TaskStates : update_task_status(id, state, FALSE)

TaskNext ==
    \/ \E id \in TaskIds, history_length \in BOOLEAN, in_memory \in BOOLEAN :
           process_task(id, history_length, in_memory)
    \/ \E id \in TaskIds, history_length \in 1..2 : get_task(id, history_length)
    \/ \E id \in TaskIds : cancel_task(id)
    \/ \E id \in TaskIds, state \in TaskStates, with_message \in BOOLEAN :
           update_task_status(id, state, with_message)
    \/ \E id \in TaskIds, append \in BOOLEAN : add_task_artifact(id, append, 0)

(***************************************************************************)
(* The message-driven entry point for task requests: _handle_task_request  *)
(* of agents/base.py BaseAgent and of core MessageHandlingMixin, each      *)
(* called with one TASK_REQUEST.                                           *)
(*   outcome : what the agent's execute does: the status of the dict it    *)
(*             returns, or "raises"                                        *)
(***************************************************************************)
MaxRequests == 3

Handlers == {"BaseAgent", "MessageHandlingMixin"}

\* The TASK_REQUEST a2 sends to a1, on an empty queue.
TaskRequest == Message(1, "TASK_REQUEST", "a2", "a1", NoCorrelation, None, None)

\* The "status" of the TASK_RESPONSE messages in a queue, in order.
response_statuses(queue) ==
    LET responses == SelectSeq(queue, LAMBDA m : m.message_type = "TASK_RESPONSE")
    IN  [i \in 1..Len(responses) |-> responses[i].status]

\* MessageHandlingMixin._handle_task_request (message_handling.py, lines
\* 24-82): the response built after execute returned says "completed", the
\* one built in the except block says "error"; each is sent once.
MessageHandlingMixin_handle_task_request(outcome) ==
    IF outcome = "raises" THEN <<"error">> ELSE <<"completed">>

\* The statuses of the responses a handler sends for the request.
responses_of(handler, outcome) ==
    IF handler = "BaseAgent"
    THEN response_statuses(
             _handle_request("a1", TaskRequest, outcome, <<>>, 1,
                             "TASK_RESPONSE").queue)
    ELSE MessageHandlingMixin_handle_task_request(outcome)

EntryInit == handled = <<>>

\* No request handled, for the specifications of the other components.
EntryIdle == EntryInit

HandleTaskRequest(handler, outcome) ==
    /\ UNCHANGED <<execVars, planVars, runVars, busVars, consVars, taskVars,
                   extVars>>
    /\ Len(handled) < MaxRequests
    /\ handled' = Append(handled, [handler |-> handler, outcome |-> outcome,
                                   responses |-> responses_of(handler, outcome)])

EntryNext ==
    \E handler \in Handlers, outcome \in HandlerOutcomes :
        HandleTaskRequest(handler, outcome)

(***************************************************************************)
(* The A2A server (a2a/server.py): the /tasks/send and /tasks/cancel       *)
(* endpoints and the process_task coroutine each send_task starts.  The    *)
(* coroutine gives up control while it waits for a chunk of the agent's    *)
(* answer, and there the endpoints run.                                    *)
(***************************************************************************)
ServerTaskIds == {"u1", "u2"}

MaxChunks == 2

\* cancel_task, line 188.
ServerFinalStatuses == {"completed", "failed", "cancelled"}

ServerInit ==
    /\ srv_status = [id \in ServerTaskIds |-> None]
    /\ srv_pc = [id \in ServerTaskIds |-> "none"]
    /\ srv_chunks = [id \in ServerTaskIds |-> 0]

\* No server, for the specifications of the other components.
ServerIdle == ServerInit

\* send_task, lines 114-135: the task is stored with the default status
\* and process_task is scheduled for it.
ServerSendTask(id) ==
    /\ UNCHANGED serverOthers
    /\ srv_status[id] = None
    /\ srv_status' = [srv_status EXCEPT ![id] = "submitted"]
    /\ srv_pc' = [srv_pc EXCEPT ![id] = "scheduled"]
    /\ UNCHANGED srv_chunks

\* cancel_task, lines 176-193, for a stored task (404 otherwise).
ServerCancelTask(id) ==
    /\ UNCHANGED serverOthers
    /\ srv_status[id] # None
    /\ srv_status' = IF srv_status[id] \notin ServerFinalStatuses
                     THEN [srv_status EXCEPT ![id] = "cancelled"]
                     ELSE srv_status
    /\ UNCHANGED <<srv_pc, srv_chunks>>

\* process_task, lines 316-320: the coroutine starts.
ProcessTaskStart(id) ==
    /\ UNCHANGED serverOthers
    /\ srv_pc[id] = "scheduled"
    /\ srv_status' = [srv_status EXCEPT ![id] = "working"]
    /\ srv_pc' = [srv_pc EXCEPT ![id] = "chunks"]
    /\ UNCHANGED srv_chunks

\* process_task, lines 345-346: agent.handle_message yields a chunk.
ProcessTaskChunk(id) ==
    /\ UNCHANGED serverOthers
    /\ srv_pc[id] = "chunks"
    /\ srv_chunks[id] < MaxChunks
    /\ srv_chunks' = [srv_chunks EXCEPT ![id] = @ + 1]
    /\ UNCHANGED <<srv_status, srv_pc>>

\* process_task, lines 359-381: the answer is complete (COMPLETED), or an
\* exception was raised (FAILED).
ProcessTaskEnd(id, raised) ==
    /\ UNCHANGED serverOthers
    /\ srv_pc[id] = "chunks"
    /\ srv_status' = [srv_status EXCEPT
                          ![id] = IF raised THEN "failed" ELSE "completed"]
    /\ srv_pc' = [srv_pc EXCEPT ![id] = "done"]
    /\ UNCHANGED srv_chunks

ServerNext ==
    \/ \E id \in ServerTaskIds : ServerSendTask(id)
    \/ \E id \in ServerTaskIds : ServerCancelTask(id)
    \/ \E id \in ServerTaskIds : ProcessTaskStart(id)
    \/ \E id \in ServerTaskIds : ProcessTaskChunk(id)
    \/ \E id \in ServerTaskIds, raised \in BOOLEAN : ProcessTaskEnd(id, raised)

(***************************************************************************)
(* Feedback between agents (agents/core/feedback.py).  Ratings are counted *)
(* in hundredths.  FeedbackManager is communication/feedback.py, which is  *)
(* described in section 4.7 of the specification: the learning strategy is *)
(* a tag on the stored feedback record.                                    *)
(***************************************************************************)
RatingScale == 100

RatingStep == 5

MaxFeedback == 2

Ratings == {r \in 0..RatingScale : r % RatingStep = 0}

\* What a caller may pass as a rating: also values outside [0, 1].
RatingInputs == Ratings \cup {0 - RatingStep, RatingScale + RatingStep}

NoFeedback == <<>>

NoStrategy == None

\* send_feedback, lines 356-358: the severity put into the message content.
severity_of(rating) ==
    IF rating < 30 THEN "high"
    ELSE IF rating < 70 THEN "medium"
    ELSE "low"

\* A strategy that takes 0.7 itself as neutral.
learning_strategy_above(rating) ==
    IF rating < 40 THEN "immediate_adjustment"
    ELSE IF rating > 70 THEN "reinforcement"
    ELSE "gradual_adjustment"

\* process_feedback, lines 119-142: the strategy chosen for a rating.
learning_strategy(rating) ==
    IF rating < 40 THEN "immediate_adjustment"
    ELSE IF rating >= 70 THEN "reinforcement"
    ELSE "gradual_adjustment"

\* FeedbackManager.record_feedback: the entry is stored, with no tag yet.
record_feedback(stored, rating) ==
    Append(stored, [rating |-> rating, strategy |-> NoStrategy])

\* FeedbackManager.apply_learning_strategy: the tag goes onto the stored
\* record of this feedback, the one recorded last.
apply_learning_strategy(stored, strategy) ==
    [stored EXCEPT ![Len(stored)].strategy = strategy]

FeedbackInit ==
    /\ fb_message = NoFeedback
    /\ feedback_entries = <<>>
    /\ fb_acks = 0
    /\ fb_raised = FALSE

\* No feedback, for the specifications of the other components.
FeedbackIdle == FeedbackInit

\* send_feedback, lines 342-361: a rating outside [0, 1] raises and nothing
\* is sent.
send_feedback(rating) ==
    /\ UNCHANGED feedbackOthers
    /\ fb_message = NoFeedback
    /\ Len(feedback_entries) < MaxFeedback
    /\ IF rating < 0 \/ rating > RatingScale
       THEN /\ fb_raised' = TRUE
            /\ UNCHANGED fb_message
       ELSE /\ fb_raised' = FALSE
            /\ fb_message' =
                   <<[rating |-> rating, severity |-> severity_of(rating)]>>
    /\ UNCHANGED <<feedback_entries, fb_acks>>

\* _handle_feedback, lines 30-93, with process_feedback, lines 95-142: the
\* entry is recorded, the strategy for its rating applied and the
\* acknowledgment sent.
_handle_feedback ==
    /\ UNCHANGED feedbackOthers
    /\ fb_message # NoFeedback
    /\ feedback_entries' =
           apply_learning_strategy(
               record_feedback(feedback_entries, fb_message[1].rating),
               learning_strategy(fb_message[1].rating))
    /\ fb_acks' = fb_acks + 1
    /\ fb_message' = NoFeedback
    /\ UNCHANGED fb_raised

FeedbackNext ==
    \/ \E rating \in RatingInputs : send_feedback(rating)
    \/ _handle_feedback

(***************************************************************************)
(* Starting a consensus process: ConsensusMixin.request_consensus          *)
(* (agents/core/consensus.py) and CommunicationProtocol.request_consensus  *)
(* (communication/protocol.py).                                            *)
(***************************************************************************)
MaxSeconds == 2

MaxCalls == 3

NoConsensusId == <<>>

\* consensus.py, line 164: "consensus_<agent id>_<%Y%m%d%H%M%S>".
consensus_id_of(agent, now) == <<"consensus", agent, now>>

ConsensusRequest(sender, recipient, consensus_id, call) ==
    [sender |-> sender, recipient |-> recipient, consensus_id |-> consensus_id,
     call |-> call]

\* The CONSENSUS_REQUEST messages of one call, one for each recipient.
requests_to(recipients, sender, consensus_id, call) ==
    [i \in 1..Len(recipients) |->
        ConsensusRequest(sender, recipients[i], consensus_id, call)]

RecipientLists == {<<"a1">>, <<"a2">>, <<"a1", "a2">>}

RequestInit ==
    /\ cr_clock = 0
    /\ cr_calls = <<>>
    /\ cr_requests = <<>>

\* No consensus request, for the specifications of the other components.
RequestIdle == RequestInit

\* A second passes.
ClockTick ==
    /\ UNCHANGED requestOthers
    /\ cr_clock < MaxSeconds
    /\ cr_clock' = cr_clock + 1
    /\ UNCHANGED <<cr_calls, cr_requests>>

\* ConsensusMixin.request_consensus, lines 134-203: the id is made of the
\* agent's id and the time in seconds, and goes into every message.
ConsensusMixin_request_consensus(agent, recipients) ==
    /\ UNCHANGED requestOthers
    /\ Len(cr_calls) < MaxCalls
    /\ LET consensus_id == consensus_id_of(agent, cr_clock)
           call == Len(cr_calls) + 1
       IN  /\ cr_calls' = Append(cr_calls,
                   [agent |-> agent, via |-> "mixin", consensus_id |-> consensus_id])
           /\ cr_requests' =
                   cr_requests \o requests_to(recipients, agent, consensus_id, call)
    /\ UNCHANGED cr_clock

\* CommunicationProtocol.request_consensus, lines 782-831: conversation_id
\* is generated and not used; the content has no consensus id.
CommunicationProtocol_request_consensus(agent, recipients) ==
    /\ UNCHANGED requestOthers
    /\ Len(cr_calls) < MaxCalls
    /\ LET call == Len(cr_calls) + 1
       IN  /\ cr_calls' = Append(cr_calls,
                   [agent |-> agent, via |-> "protocol", consensus_id |-> NoConsensusId])
           /\ cr_requests' =
                   cr_requests \o requests_to(recipients, agent, NoConsensusId, call)
    /\ UNCHANGED cr_clock

RequestNext ==
    \/ ClockTick
    \/ \E agent \in Agents, recipients \in RecipientLists :
           ConsensusMixin_request_consensus(agent, recipients)
    \/ \E agent \in Agents, recipients \in RecipientLists :
           CommunicationProtocol_request_consensus(agent, recipients)

(***************************************************************************)
(* Task decomposition (task_decomposition.py and                           *)
(* task_decomposition_strategies.py).  A subtask's id is its position in   *)
(* the list of subtasks; 0 stands for None.                                *)
(***************************************************************************)
MaxSteps == 3

MaxDepth == 2

MaxChildren == 2

NoSubtask == 0

\* SubTask(...): a new subtask is pending.
SubTask(id, dependencies) ==
    [id |-> id, dependencies |-> dependencies, status |-> "pending"]

\* SequentialDecompositionStrategy.decompose, lines 35-69: each step depends
\* on the one before it.
sequential_decompose(steps) ==
    [i \in 1..steps |-> SubTask(i, IF i > 1 THEN <<i - 1>> ELSE <<>>)]

\* ParallelDecompositionStrategy.decompose, lines 85-117.
parallel_decompose(subtask_specs) ==
    [i \in 1..subtask_specs |-> SubTask(i, <<>>)]

\* A node of parameters["hierarchy"].
HierarchyNode(depends_on_children, children) ==
    [depends_on_children |-> depends_on_children, children |-> children]

ChildLists(nodes) == UNION {[1..n -> nodes] : n \in 0..MaxChildren}

RECURSIVE Hierarchies(_)
Hierarchies(depth) ==
    IF depth = 0
    THEN {HierarchyNode(d, <<>>) : d \in BOOLEAN}
    ELSE {HierarchyNode(d, cs) :
              d \in BOOLEAN, cs \in ChildLists(Hierarchies(depth - 1))}

\* HierarchicalDecompositionStrategy._process_hierarchy_node, lines 162-215:
\* the node's subtask depends on its parent; the children are processed in
\* order; with depends_on_children their ids are added to the node's own
\* dependencies.
RECURSIVE _process_hierarchy_node(_, _, _)
RECURSIVE process_children(_, _, _, _)
_process_hierarchy_node(node, parent_id, subtasks) ==
    LET id == Len(subtasks) + 1
        subtask == SubTask(id, IF parent_id # NoSubtask THEN <<parent_id>> ELSE <<>>)
        c == process_children(node.children, id, Append(subtasks, subtask), <<>>)
    IN  [id |-> id,
         subtasks |-> IF node.depends_on_children /\ c.child_ids # <<>>
                      THEN [c.subtasks EXCEPT ![id].dependencies = @ \o c.child_ids]
                      ELSE c.subtasks]

\* Lines 199-209: the loop over the children.
process_children(children, parent_id, subtasks, child_ids) ==
    IF children = <<>>
    THEN [subtasks |-> subtasks, child_ids |-> child_ids]
    ELSE LET c == _process_hierarchy_node(Head(children), parent_id, subtasks)
         IN  process_children(Tail(children), parent_id, c.subtasks,
                              Append(child_ids, c.id))

\* HierarchicalDecompositionStrategy.decompose, lines 132-160.
hierarchical_decompose(hierarchy) ==
    _process_hierarchy_node(hierarchy, NoSubtask, <<>>).subtasks

\* ComplexTask.get_ready_subtasks, lines 201-221: the pending subtasks whose
\* dependencies are all completed.
get_ready_subtasks(subtasks) ==
    LET completed_subtask_ids ==
            {subtasks[i].id : i \in {j \in DOMAIN subtasks :
                                        subtasks[j].status = "completed"}}
    IN  SelectSeq(subtasks, LAMBDA subtask :
            /\ subtask.status = "pending"
            /\ \A k \in DOMAIN subtask.dependencies :
                   subtask.dependencies[k] \in completed_subtask_ids)

\* ComplexTask.is_complete, lines 223-232.
is_complete(subtasks) ==
    /\ subtasks # <<>>
    /\ \A i \in DOMAIN subtasks : subtasks[i].status = "completed"

DecompInit ==
    /\ d_strategy = None
    /\ d_subtasks = <<>>

\* No decomposition, for the specifications of the other components.
DecompIdle == DecompInit

\* The ids a decomposition can give out.
MaxSubtasks == 7

\* TaskDecomposer.decompose_task, lines 350-384: the subtasks the strategy
\* returns are added to the complex task.
Decomposed(strategy_name, subtasks) ==
    /\ d_strategy' = strategy_name
    /\ d_subtasks' = subtasks

DecomposeSequential(steps) ==
    /\ UNCHANGED decompOthers
    /\ d_strategy = None
    /\ Decomposed("sequential", sequential_decompose(steps))

DecomposeParallel(subtask_specs) ==
    /\ UNCHANGED decompOthers
    /\ d_strategy = None
    /\ Decomposed("parallel", parallel_decompose(subtask_specs))

DecomposeHierarchical(hierarchy) ==
    /\ UNCHANGED decompOthers
    /\ d_strategy = None
    /\ Decomposed("hierarchical", hierarchical_decompose(hierarchy))

\* A subtask that get_ready_subtasks returned is executed and completed.
CompleteReady(id) ==
    /\ UNCHANGED decompOthers
    /\ \E i \in DOMAIN get_ready_subtasks(d_subtasks) :
           get_ready_subtasks(d_subtasks)[i].id = id
    /\ d_subtasks' = [d_subtasks EXCEPT ![id].status = "completed"]
    /\ UNCHANGED d_strategy

DecompNext ==
    \/ \E steps \in 0..MaxSteps : DecomposeSequential(steps)
    \/ \E subtask_specs \in 0..MaxSteps : DecomposeParallel(subtask_specs)
    \/ \E hierarchy \in Hierarchies(MaxDepth) : DecomposeHierarchical(hierarchy)
    \/ \E id \in 1..MaxSubtasks : CompleteReady(id)

(***************************************************************************)
(* Components at rest.                                                     *)
(***************************************************************************)
ExtIdle == ServerIdle /\ FeedbackIdle /\ RequestIdle /\ DecompIdle

\* No messaging at all.
CommIdle == BusIdle /\ ConsIdle /\ TaskIdle /\ EntryIdle /\ ExtIdle

CoreIdle ==
    /\ ExecIdle /\ PlanIdle /\ RunIdle /\ BusIdle /\ ConsIdle /\ TaskIdle
    /\ EntryIdle

(***************************************************************************)
(* The specifications: one component runs, the others are at rest.         *)
(***************************************************************************)
InitExec == ExecInit /\ PlanIdle /\ RunIdle /\ CommIdle

SpecExec == InitExec /\ [][ExecNext]_vars

InitPlan == PlanInit /\ ExecIdle /\ RunIdle /\ CommIdle

SpecPlan == InitPlan /\ [][PlanNext]_vars

InitRun == RunInit /\ ExecIdle /\ PlanIdle /\ CommIdle

SpecRun == InitRun /\ [][RunNext]_vars

\* Every agent.execute call returns and the coroutine is run to its end.
SpecExecFair == SpecExec /\ WF_vars(ExecNext)

InitBus ==
    /\ BusInit /\ ExecIdle /\ PlanIdle /\ RunIdle /\ ConsIdle /\ TaskIdle
    /\ EntryIdle /\ ExtIdle

SpecSend == InitBus /\ [][SendNext]_vars

SpecBus == InitBus /\ [][BusNext]_vars

InitCons ==
    /\ ConsInit /\ ExecIdle /\ PlanIdle /\ RunIdle /\ BusIdle /\ TaskIdle
    /\ EntryIdle /\ ExtIdle

SpecCons == InitCons /\ [][ConsNext]_vars

InitTask ==
    /\ TaskInit /\ ExecIdle /\ PlanIdle /\ RunIdle /\ BusIdle /\ ConsIdle
    /\ EntryIdle /\ ExtIdle

SpecTask == InitTask /\ [][TaskNext]_vars

SpecSubscribe == InitTask /\ [][SubscribeNext]_vars

\* The event loop resumes a subscriber whose queue holds something.
SpecSubscribeFair == SpecSubscribe /\ \A s \in Subs : WF_vars(SubscriberGet(s))

InitEntry ==
    /\ EntryInit /\ ExecIdle /\ PlanIdle /\ RunIdle /\ BusIdle /\ ConsIdle
    /\ TaskIdle /\ ExtIdle

SpecEntry == InitEntry /\ [][EntryNext]_vars

InitServer == ServerInit /\ CoreIdle /\ FeedbackIdle /\ RequestIdle /\ DecompIdle

SpecServer == InitServer /\ [][ServerNext]_vars

InitFeedback == FeedbackInit /\ CoreIdle /\ ServerIdle /\ RequestIdle /\ DecompIdle

InitRequest == RequestInit /\ CoreIdle /\ ServerIdle /\ FeedbackIdle /\ DecompIdle

InitDecomp == DecompInit /\ CoreIdle /\ ServerIdle /\ FeedbackIdle /\ RequestIdle

SpecDecomp == InitDecomp /\ [][DecompNext]_vars

SpecRequest == InitRequest /\ [][RequestNext]_vars

SpecFeedback == InitFeedback /\ [][FeedbackNext]_vars

\* The event loop runs every task that can run: the processor tasks, and the
\* caller of stop once the task it awaits has ended.
SpecBusFair ==
    /\ SpecBus
    /\ \A l \in Loops :
           /\ WF_vars(LoopTest(l))
           /\ WF_vars(LoopGet(l))
           /\ WF_vars(\E outcome \in HandlerOutcomes : LoopHandle(l, outcome))
    /\ WF_vars(StopReturn)

(***************************************************************************)
(* Claims about WorkflowExecutor.execute_workflow (SpecExec).              *)
(***************************************************************************)
StepNamed(name) ==
    CHOOSE step \in Range(version_steps) : step.task.name = name

DepsCompleted(step) ==
    \A k \in 1..Len(step.dependencies) :
        /\ In(step.dependencies[k], completed_steps)
        /\ ~In(step.dependencies[k], failed_steps)

\* C1: dependency safety. A step is handed to _execute_step only while every
\* one of its dependencies is in completed_steps and none is in failed_steps,
\* and every step recorded in completed_steps has all its dependencies in
\* completed_steps and none in failed_steps.
C1_DependencySafety ==
    /\ [](\A i \in 1..Len(completed_steps) :
              DepsCompleted(StepNamed(completed_steps[i])))
    /\ [][executed' # executed =>
              DepsCompleted(StepNamed(executed'[Len(executed')]))]_vars

\* C1 witness: the run is over, a step with dependencies was executed, and a
\* step with a failed dependency was never executed.
C1_Witness ==
    /\ x_pc = "done"
    /\ \E i \in 1..Len(executed) : StepNamed(executed[i]).dependencies # <<>>
    /\ \E step \in Range(version_steps) :
           /\ ~In(step.task.name, executed)
           /\ \E k \in 1..Len(step.dependencies) :
                  In(step.dependencies[k], failed_steps)

\* C3 (as claimed): a step whose agent returned status "completed" is in
\* completed_steps and not in failed_steps.
C3_CompletedResultIsCompleted ==
    (last_result.agent_executed /\ last_result.status = "completed")
        => /\ In(last_result.task, completed_steps)
           /\ ~In(last_result.task, failed_steps)

AllStepsCompleted ==
    \A i \in 1..Len(version_steps) :
        In(version_steps[i].task.name, completed_steps)

\* C4 (as claimed): the returned status is "success" exactly when every step
\* of the version is in completed_steps.
C4_SuccessIffAllCompleted ==
    x_pc = "done" => (x_status = "success" <=> AllStepsCompleted)

\* Scenario A: [S1, S2 after S1, S3 after S1], S2 and S3 parallel, no
\* conditions.
ScenarioA ==
    version_steps = <<WorkflowStep("S1", <<>>, TRUE, None),
                      WorkflowStep("S2", <<"S1">>, TRUE, None),
                      WorkflowStep("S3", <<"S1">>, TRUE, None)>>

\* C5: in Scenario A with every result a success, S1 is executed first, S2
\* and S3 are both in the batch of the second iteration and both completed
\* when it ends, and the run ends "success" with completed_steps S1, S2, S3.
C5_ScenarioA ==
    (ScenarioA /\ all_success) =>
        /\ (executed # <<>> => executed[1] = "S1")
        /\ ((In("S2", executed) \/ In("S3", executed)) =>
                inner_loop_iterations >= 2)
        /\ ((x_pc = "for" /\ inner_loop_iterations = 2) =>
                Range(executed) \cup {st.task.name : st \in Range(executable_steps)}
                    = {"S1", "S2", "S3"})
        /\ ((x_pc = "while" /\ inner_loop_iterations = 2) =>
                (In("S2", completed_steps) /\ In("S3", completed_steps)))
        /\ (x_pc = "done" =>
                /\ x_status = "success"
                /\ Len(completed_steps) = 3
                /\ Range(completed_steps) = {"S1", "S2", "S3"})

\* C5 witness: Scenario A has run to its end with every result a success.
C5_Witness ==
    ScenarioA /\ all_success /\ x_pc = "done" /\ Len(executed) = 3

\* C6: Scenario B. When select_agent_for_task returns None, agent.execute is
\* not invoked, the result is an error saying no suitable agent was found, the
\* step is in failed_steps and not in completed_steps, and a run of that one
\* step ends with status "failed".
C6_NoSuitableAgent ==
    (selected_agent = None /\ last_result.task # None) =>
        /\ ~last_result.agent_executed
        /\ last_result.status = "error"
        /\ last_result.error = NoSuitableAgent
        /\ In(last_result.task, failed_steps)
        /\ ~In(last_result.task, completed_steps)
        /\ (x_pc = "done" /\ Len(version_steps) = 1) => x_status = "failed"

\* C6 witness: a one-step run whose step found no agent has ended.
C6_Witness ==
    /\ selected_agent = None
    /\ last_result.task = "S1"
    /\ Len(version_steps) = 1
    /\ x_pc = "done"

(***************************************************************************)
(* Claims about WorkflowPlanner.replan_workflow (SpecPlan).                *)
(***************************************************************************)
\* C2: replan preserves completed work (A, B, C of the claim are S1, S2, S3).
\* After a replan that returned a version: every completed step of the source
\* is in the new version unchanged; no failed step that is not completed is in
\* it; every other step of the source is in it with the same task, parallel
\* flag and condition and with its dependency list less the failed names; and
\* it holds nothing else. With completed [S1], failed [S2] and S3 depending
\* on [S1, S2], the new version is S1 as it was and S3 depending on [S1].
C2_ReplanPreservesCompleted ==
    last_replan.returned # NoId =>
        LET old == versions[last_replan.source].steps
            new == versions[last_replan.returned].steps
            cs == last_replan.completed_steps
            fs == last_replan.failed_steps
            kept == {i \in 1..Len(old) :
                        In(old[i].task.name, cs) \/ ~In(old[i].task.name, fs)}
        IN  /\ \A i \in 1..Len(old) :
                   In(old[i].task.name, cs) => \E j \in 1..Len(new) : new[j] = old[i]
            /\ \A j \in 1..Len(new) :
                   ~(In(new[j].task.name, fs) /\ ~In(new[j].task.name, cs))
            /\ \A i \in 1..Len(old) :
                   (~In(old[i].task.name, cs) /\ ~In(old[i].task.name, fs)) =>
                       \E j \in 1..Len(new) :
                           /\ new[j].task = old[i].task
                           /\ new[j].parallel = old[i].parallel
                           /\ new[j].condition = old[i].condition
                           /\ Range(new[j].dependencies) =
                                  Range(old[i].dependencies) \ Range(fs)
                           /\ Len(new[j].dependencies) =
                                  Cardinality(Range(new[j].dependencies))
            /\ Len(new) = Cardinality(kept)
            /\ (cs = <<"S1">> /\ fs = <<"S2">> /\ Len(old) = 3
                    /\ old[3].dependencies = <<"S1", "S2">>) =>
                   /\ Len(new) = 2
                   /\ new[1] = old[1]
                   /\ new[2] = [old[3] EXCEPT !.dependencies = <<"S1">>]

\* C2 witness: the replan of the claim has been done.
C2_Witness ==
    /\ last_replan.returned # NoId
    /\ last_replan.completed_steps = <<"S1">>
    /\ last_replan.failed_steps = <<"S2">>
    /\ versions[last_replan.source].steps[3].dependencies = <<"S1", "S2">>
    /\ Len(versions[last_replan.returned].steps) = 2

\* C10: a replan leaves every version that existed as it was (its step list
\* and every step's dependency list), and the version it creates has the
\* source version's id as parent_version_id.
C10_ReplanDoesNotMutateSource ==
    /\ [][\A v \in 1..Len(versions) :
              Len(versions') >= v /\ versions'[v] = versions[v]]_vars
    /\ [](last_replan.returned # NoId =>
              versions[last_replan.returned].parent_version_id = last_replan.source)

\* C10 witness: a replan dropped a failed dependency in the version it made,
\* whose parent is the version it was asked to replan.
C10_Witness ==
    /\ last_replan.returned # NoId
    /\ last_replan.source = 1
    /\ last_replan.failed_steps = <<"S1">>
    /\ last_replan.completed_steps = <<>>
    /\ versions[1].steps[2].dependencies = <<"S1">>
    /\ versions[last_replan.returned].steps[1].dependencies = <<>>

ResumePending ==
    /\ r_pc = "inner"
    /\ last_entry = "replanned"
    /\ pl_status = "blocked"
    /\ OrchestratorAgent_get_executable_steps(task_plan, pl_completed) # <<>>

\* C8 (as claimed): when blocked execution was replanned into a new plan that
\* has an executable step, with planning attempts left, the next thing
\* run_task does is execute a step.
C8_ReplanResumesExecution ==
    [][(ResumePending /\ n_exec < MaxExecs) => n_exec' = n_exec + 1]_vars

\* C9 (as claimed): once a replan has returned None no step is executed any
\* more, and the run returns status "error" with an error message.
C9_FailedReplanIsTerminal ==
    /\ [][replan_failed => n_exec' = n_exec]_vars
    /\ []((r_pc = "done" /\ replan_failed) =>
              (final_status = "error" /\ final_error # None))


\* The ways replan_workflow ends without a new version.
ReplanFailures == {"version_not_found", "metadata_missing", "persist_raised"}

\* C11: replan_workflow returns None and creates no version when the source
\* version is not found, when the workflow metadata is missing, or when
\* persisting the new version raises; it does not raise in these cases (every
\* call ends with a returned value: None or the new version id).
C11_ReplanFailureReturnsNone ==
    /\ [][replan_outcome' \in ReplanFailures =>
              (versions' = versions /\ replan_ret' = NoId)]_vars
    /\ [][~has_metadata => versions' = versions]_vars
    /\ [](replan_outcome \in ReplanFailures \cup {"none", "created"})
    /\ [](replan_outcome = "created" => replan_ret = Len(versions))

\* A replan failed for want of a version after an earlier one had succeeded.
C11_Witness ==
    /\ replan_outcome = "version_not_found"
    /\ Len(versions) = 2
    /\ replan_ret = NoId


(***************************************************************************)
(* Claims about the message bus and the protocol (SpecBus, SpecSend).      *)
(***************************************************************************)
\* Task l finishes the iteration for the message it holds.
HandleStep(l) == b_pc[l] = "handling" /\ b_pc'[l] = "test"

\* The messages a step appends to the queue.
NewMessages ==
    SubSeq(message_queue', Len(message_queue) + 1, Len(message_queue'))

IsBusErrorFor(e, message) ==
    /\ e.message_type = "ERROR"
    /\ e.sender = MessageBusId
    /\ e.recipient = message.sender
    /\ e.correlation_id = message.message_id

\* C12: for a message whose recipient has no subscriber or whose subscriber
\* raises, the bus enqueues exactly one ERROR message, addressed to the
\* message's sender with the message's id as correlation id; the loop goes on
\* (it ends only once the bus has been stopped).
C12_BusErrorOnFailedDelivery ==
    /\ [][\A l \in Loops : HandleStep(l) =>
            LET errors == {i \in DOMAIN NewMessages :
                              NewMessages[i].sender = MessageBusId}
            IN  IF current[l].recipient \notin subscribers
                   \/ last_delivery' = "handler_raised"
                THEN /\ Cardinality(errors) = 1
                     /\ \A i \in errors : IsBusErrorFor(NewMessages[i], current[l])
                     /\ last_delivery' # "delivered"
                ELSE errors = {}]_vars
    /\ [][\A l \in Loops :
              (b_pc[l] # "ended" /\ b_pc'[l] = "ended") => ~_running]_vars

\* The handler of a subscriber raised, the ERROR message for it waits in the
\* queue, and the loop is about to take the next message.
C12_Witness ==
    /\ last_delivery = "handler_raised"
    /\ b_pc[1] = "get"
    /\ _running
    /\ \E i \in DOMAIN message_queue :
           /\ message_queue[i].sender = MessageBusId
           /\ message_queue[i].recipient = "a2"
           /\ message_queue[i].correlation_id = 1

\* C13: stop on a running bus eventually returns, also while the loop waits
\* on an empty queue; it returns only after the message in hand has been
\* processed, and afterwards the loop takes no message.
C13_StopReturns ==
    /\ (stop_pc = "awaiting") ~> (stop_pc = "returned")
    /\ [](stop_pc = "returned" =>
              (b_pc[awaited_task] = "ended" /\ current[awaited_task] = NoMessage))
    /\ [][stop_pc = "returned" =>
              current'[awaited_task] = current[awaited_task]]_vars

\* What the claim calls an invalid message: a top-level field of the wrong
\* type, a TASK_REQUEST without task_description or parameters, a QUERY
\* without query.
HasField(content, key) == \E f \in content.fields : f[1] = key

ClaimInvalid(ls) ==
    \/ ls.recipient_type # "str"
    \/ ~ls.content.is_dict
    \/ /\ ls.message_type = "TASK_REQUEST"
       /\ ~(HasField(ls.content, "task_description")
            /\ HasField(ls.content, "parameters"))
    \/ /\ ls.message_type = "QUERY"
       /\ ~HasField(ls.content, "query")

ExactlyOneEnqueued(ls) ==
    /\ Len(NewMessages) = 1
    /\ NewMessages[1].message_id = ls.returned
    /\ NewMessages[1].message_type = ls.message_type
    /\ \A i \in DOMAIN message_queue : message_queue[i].message_id # ls.returned

C15_BoundedPublishRetries ==
    [][last_send' # last_send =>
        LET ls == last_send'
            transient == ls.publish.raises = "CommunicationError"
        IN  /\ ls.attempts <= 3
            /\ (ls.raised # "MessageValidationError" /\ transient
                /\ ls.publish.failing >= 3) =>
                   (/\ ls.raised = "MessageDeliveryError"
                    /\ ls.attempts = 3
                    /\ message_queue' = message_queue)
            /\ (ls.raised # "MessageValidationError" /\ transient
                /\ ls.publish.failing < 3) =>
                   (/\ ls.raised = None
                    /\ ls.attempts = ls.publish.failing + 1
                    /\ ExactlyOneEnqueued(ls))]_vars

\* A send went through on its third attempt.
C15_Witness ==
    /\ last_send.raised = None
    /\ last_send.attempts = 3
    /\ last_send.publish = PublishOutcome(2, "CommunicationError")
    /\ Len(message_queue) = 2

\* C16: for a message of a type without registered handler the protocol
\* sends exactly one ERROR message to the sender, with the message's id as
\* correlation id and the hint to register a handler, and no exception
\* reaches the bus.
C16_UnhandledTypeErrorReply ==
    [][\A l \in Loops :
        (/\ HandleStep(l)
         /\ current[l].recipient \in subscribers
         /\ current[l].message_type \notin message_handlers(current[l].recipient)) =>
            /\ last_delivery' = "delivered"
            /\ Cardinality({i \in DOMAIN NewMessages :
                   /\ NewMessages[i].message_type = "ERROR"
                   /\ NewMessages[i].sender = current[l].recipient
                   /\ NewMessages[i].recipient = current[l].sender
                   /\ NewMessages[i].correlation_id = current[l].message_id
                   /\ NewMessages[i].recovery_hint = "register_handler"}) = 1]_vars

\* C17: a TASK_REQUEST sent without correlation id and delivered to an agent
\* that handles task requests produces a TASK_RESPONSE to the requester with
\* the request's id as correlation id, whether the execution succeeds or
\* fails.
C17_TaskRequestRoundTrip ==
    [][\A l \in Loops :
        (/\ HandleStep(l)
         /\ current[l].message_type = "TASK_REQUEST"
         /\ current[l].correlation_id = NoCorrelation
         /\ current[l].recipient \in subscribers
         /\ "TASK_REQUEST" \in message_handlers(current[l].recipient)) =>
            \E i \in DOMAIN NewMessages :
                /\ NewMessages[i].message_type = "TASK_RESPONSE"
                /\ NewMessages[i].recipient = current[l].sender
                /\ NewMessages[i].correlation_id = current[l].message_id]_vars


(***************************************************************************)
(* Claims about the consensus process (SpecCons).                          *)
(***************************************************************************)
OptionIndex(option) == CHOOSE i \in DOMAIN Options : Options[i] = option

\* The option with the most votes; among tied options the one registered
\* first.
MostVotedFirstRegistered(vs) ==
    CHOOSE o \in Range(Options) :
        \A o2 \in Range(Options) :
            \/ VoteCount(vs, o) > VoteCount(vs, o2)
            \/ /\ VoteCount(vs, o) = VoteCount(vs, o2)
               /\ OptionIndex(o) <= OptionIndex(o2)

VotesCast(vs) == [i \in DOMAIN vs |-> vs[i].vote]

\* C18: with mechanism majority the result is the option with the most
\* recorded votes, on a tie the tied option registered first, whatever the
\* order of the votes: [X,Y,X] gives X, [X,Y] and [Y,X] give X.
C18_MajorityTally ==
    (voting_mechanism = "majority" /\ consensus_result # None) =>
        /\ consensus_result = MostVotedFirstRegistered(votes)
        /\ VotesCast(votes) \in {<<"X", "Y", "X">>, <<"X", "Y">>, <<"Y", "X">>} =>
               consensus_result = "X"

\* A tie tallied where the first vote was for the option registered second.
C18_Witness ==
    /\ voting_mechanism = "majority"
    /\ VotesCast(votes) = <<"Y", "X">>
    /\ consensus_result = "X"

\* C19: with mechanism unanimous, 3 participants and min_participants = 2,
\* two recorded votes for the same option give that option, two votes for
\* different options give the no-consensus outcome, which is none of the
\* options and is broadcast like any result.
C19_UnanimousTally ==
    (/\ voting_mechanism = "unanimous"
     /\ Cardinality(Participants) = 3
     /\ min_participants = 2
     /\ consensus_result # None) =>
        /\ Len(votes) = 2
        /\ votes[1].vote = votes[2].vote => consensus_result = votes[1].vote
        /\ votes[1].vote # votes[2].vote =>
               /\ consensus_result = NoConsensus
               /\ consensus_result \notin Range(Options)
        /\ \A p \in Participants : results_sent[p] >= 1

\* Two different votes were tallied under unanimous.
C19_Witness ==
    /\ voting_mechanism = "unanimous"
    /\ min_participants = 2
    /\ VotesCast(votes) = <<"X", "Y">>
    /\ consensus_result = NoConsensus

\* C20: once the result has been tallied and broadcast, a further vote
\* changes neither the recorded votes nor the result, and every participant
\* is sent the CONSENSUS_RESULT exactly once.
C20_ConsensusIsTerminal ==
    /\ [][consensus_result # None =>
              (votes' = votes /\ consensus_result' = consensus_result)]_vars
    /\ [](consensus_result # None =>
              \A p \in Participants : results_sent[p] = 1)
    /\ [](consensus_result = None =>
              \A p \in Participants : results_sent[p] = 0)

(***************************************************************************)
(* C21: cancel_task on a task that is completed, failed or canceled raises *)
(* ValueError and changes nothing, and a canceled task never leaves the    *)
(* canceled state under any later call of the TaskManager.                 *)
(***************************************************************************)
CancelOfFinalRaises ==
    \A id \in TaskIds :
        (/\ tm_last' = Call("cancel_task", id, tm_last'.raised)
         /\ tm_last' # tm_last
         /\ tasks[id].state \in FinalStates)
        => (tm_last'.raised = "ValueError" /\ tasks' = tasks)

CanceledStays ==
    \A id \in TaskIds :
        tasks[id].state = "canceled" => tasks'[id].state = "canceled"

C21_CancellationIsFinal == [][CancelOfFinalRaises /\ CanceledStays]_vars

(***************************************************************************)
(* C22: TaskLedger.current_plan_version never decreases, and every step    *)
(* in which a replan replaces TaskLedger.plan by a different plan strictly *)
(* increases it.                                                           *)
(***************************************************************************)
PlanReplaced ==
    /\ planning_attempts' = planning_attempts + 1
    /\ task_plan' # task_plan

C22_PlanVersionIncreases ==
    [][/\ current_plan_version' >= current_plan_version
       /\ PlanReplaced => current_plan_version' > current_plan_version]_vars

(***************************************************************************)
(* C23: ProgressLedger.entries is append-only: every step leaves the       *)
(* entries recorded so far in place and unchanged, and adds new ones only  *)
(* at the end.                                                             *)
(***************************************************************************)
C23_EntriesAppendOnly ==
    [][/\ Len(entries') >= Len(entries)
       /\ SubSeq(entries', 1, Len(entries)) = entries]_vars

\* A run that executed a step, was blocked and replanned: entries of
\* execute_step and of run_task are recorded.
C23_Witness ==
    /\ Len(entries) >= 5
    /\ \E i \in 1..Len(entries) : entries[i] = "replanned"
    /\ \E i \in 1..Len(entries) : entries[i] = "success"

(***************************************************************************)
(* C24: ProgressLedger.current_status is one of not_started, running,      *)
(* stalled, completed, failed in every reachable state.                    *)
(***************************************************************************)
LedgerStatuses == {"not_started", "running", "stalled", "completed", "failed"}

C24_StatusInLedgerDomain == pl_status \in LedgerStatuses

(***************************************************************************)
(* C25: the inner loop of execute_workflow runs at most                    *)
(* min(10, 2 * stepCount + 1) iterations and then ends, for every plan,    *)
(* when each agent.execute call returns.                                   *)
(***************************************************************************)
Min(a, b) == IF a <= b THEN a ELSE b

IterationCap == Min(10, 2 * Len(version_steps) + 1)

IterationEnd == x_pc = "for" /\ executable_steps = <<>>

ReflectionDue ==
    /\ failed_steps # <<>>
    /\ Len(completed_steps) * 10 < 7 * Len(version_steps)

C26_ReflectionBreak ==
    \A n \in 0..Len(NameSeq) :
        []((IterationEnd /\ ReflectionDue /\ Len(executed) = n)
               => [](Len(executed) = n))

(***************************************************************************)
(* C27: a step whose condition evaluates false is skipped and counts as    *)
(* handled: it appears exactly once in skipped_steps and no later batch of *)
(* executable steps offers it again.                                       *)
(***************************************************************************)
SkippedOnce ==
    \A i, j \in 1..Len(skipped_steps) :
        skipped_steps[i] = skipped_steps[j] => i = j

SkippedNotOffered ==
    \A k \in 1..Len(executable_steps) :
        ~In(executable_steps[k].task.name, skipped_steps)

C27_SkippedCountsAsHandled == SkippedOnce /\ SkippedNotOffered

(***************************************************************************)
(* C28: when every dependency of the source version names a step of that   *)
(* version and no completed step depends on a failed step, every           *)
(* dependency in the version replan_workflow creates names a step of the   *)
(* new version, and the surviving steps keep their relative order.         *)
(***************************************************************************)
NamesOf(steps) == {steps[i].task.name : i \in 1..Len(steps)}

DependencyClosed(steps) ==
    \A i \in 1..Len(steps) : Range(steps[i].dependencies) \subseteq NamesOf(steps)

NoCompletedDependsOnFailed(steps, completed, failed) ==
    \A i \in 1..Len(steps) :
        In(steps[i].task.name, completed)
            => \A k \in 1..Len(steps[i].dependencies) :
                   ~In(steps[i].dependencies[k], failed)

PositionIn(steps, name) ==
    CHOOSE i \in 1..Len(steps) : steps[i].task.name = name

OrderKept(source, new) ==
    /\ NamesOf(new) \subseteq NamesOf(source)
    /\ \A i, j \in 1..Len(new) :
           i < j => PositionIn(source, new[i].task.name)
                        < PositionIn(source, new[j].task.name)

C28_ReplanKeepsPlanClosed ==
    last_replan # NoReplan =>
        LET source == versions[last_replan.source].steps
            new == versions[last_replan.returned].steps
        IN  (/\ DependencyClosed(source)
             /\ NoCompletedDependsOnFailed(source, last_replan.completed_steps,
                                           last_replan.failed_steps))
            => (DependencyClosed(new) /\ OrderKept(source, new))

\* A replan dropped the failed first step, carried over the completed second
\* step and kept the unfinished third step, which depended on the first.
C28_Witness ==
    /\ last_replan # NoReplan
    /\ LET source == versions[last_replan.source].steps
           new == versions[last_replan.returned].steps
       IN  /\ DependencyClosed(source)
           /\ NoCompletedDependsOnFailed(source, last_replan.completed_steps,
                                         last_replan.failed_steps)
           /\ Len(source) = 3 /\ Len(new) = 2
           /\ last_replan.failed_steps = <<source[1].task.name>>
           /\ last_replan.completed_steps = <<source[2].task.name>>
           /\ In(source[1].task.name, source[3].dependencies)
           /\ new[2].task.name = source[3].task.name

(***************************************************************************)
(* C29: under every interleaving of start and stop calls at most one       *)
(* _process_messages task consumes the queue at any time.                  *)
(***************************************************************************)
Consuming == {l \in Loops : b_pc[l] \in {"test", "get", "handling"}}

C29_SingleConsumer == Cardinality(Consuming) <= 1

(***************************************************************************)
(* C30: the TASK_RESPONSE an agent sends for a TASK_REQUEST carries the    *)
(* status of the execute call it made (failed or error when execute        *)
(* returned such a result or raised, never completed), and exactly one     *)
(* response is sent per request.                                           *)
(***************************************************************************)
C30_ResponseCarriesExecuteStatus ==
    \A i \in 1..Len(handled) :
        LET h == handled[i]
        IN  /\ Len(h.responses) = 1
            /\ IF h.outcome = "raises"
               THEN h.responses[1] \in {"failed", "error"}
               ELSE h.responses[1] = h.outcome

(***************************************************************************)
(* C31: a task cancelled through /tasks/cancel while its process_task is   *)
(* still running stays cancelled: process_task never overwrites the        *)
(* cancelled status with working, completed or failed.                     *)
(***************************************************************************)
C31_CancelSurvivesProcessing ==
    [][\A id \in ServerTaskIds :
          (srv_status[id] = "cancelled" /\ srv_pc[id] = "chunks")
              => srv_status'[id] = "cancelled"]_vars

\* C32: every feedback with a rating in [0, 1] carries exactly one severity,
\* high below 0.3, medium from 0.3 up to but not 0.7, low from 0.7 on, and
\* its stored record exactly one learning strategy, immediate adjustment
\* below 0.4, reinforcement from 0.7 on, gradual adjustment between; handling
\* the feedback adds that one tagged record and leaves the records stored
\* before, and everything else but the acknowledgment, as they were.
SeverityByThreshold ==
    fb_message # NoFeedback =>
        /\ fb_message[1].rating \in 0..RatingScale
        /\ fb_message[1].severity \in {"high", "medium", "low"}
        /\ fb_message[1].severity = "high" <=> fb_message[1].rating < 30
        /\ fb_message[1].severity = "medium" <=>
               (30 <= fb_message[1].rating /\ fb_message[1].rating < 70)
        /\ fb_message[1].severity = "low" <=> fb_message[1].rating >= 70

StrategyByThreshold ==
    \A i \in DOMAIN feedback_entries :
        LET e == feedback_entries[i] IN
        /\ e.strategy \in
               {"immediate_adjustment", "reinforcement", "gradual_adjustment"}
        /\ e.strategy = "immediate_adjustment" <=> e.rating < 40
        /\ e.strategy = "reinforcement" <=> e.rating >= 70
        /\ e.strategy = "gradual_adjustment" <=>
               (40 <= e.rating /\ e.rating < 70)

OnlyTheRecordChanges ==
    feedback_entries' # feedback_entries =>
        /\ Len(feedback_entries') = Len(feedback_entries) + 1
        /\ SubSeq(feedback_entries', 1, Len(feedback_entries)) = feedback_entries
        /\ feedback_entries'[Len(feedback_entries')].rating = fb_message[1].rating
        /\ UNCHANGED <<feedbackOthers, fb_raised>>

C32_SeverityAndStrategy ==
    /\ [](SeverityByThreshold /\ StrategyByThreshold)
    /\ [][OnlyTheRecordChanges]_vars

\* Feedback rated exactly 0.7 is on its way, after feedback rated 0.3 and
\* handled.
C32_Witness ==
    /\ fb_message # NoFeedback
    /\ fb_message[1].rating = 70
    /\ Len(feedback_entries) = 1
    /\ feedback_entries[1].rating = 30

\* C33: an ERROR message that cannot be delivered starts no unbounded chain
\* of ERROR messages.  The chain reaches, at the latest with its second
\* message, an ERROR from the bus to its own sender id "message_bus", which
\* never subscribes; the bus answers that one with no further ERROR message
\* (the answer would again be an ERROR from the bus to "message_bus", and so
\* without end).
BusErrorToBus(message) ==
    /\ message.message_type = "ERROR"
    /\ message.sender = MessageBusId
    /\ message.recipient = MessageBusId

C33_ErrorChainEnds ==
    [][\A l \in Loops :
        (HandleStep(l) /\ BusErrorToBus(current[l])) =>
            \A i \in DOMAIN NewMessages : ~BusErrorToBus(NewMessages[i])]_vars

\* C34: at every point of execute_workflow the completed, failed and skipped
\* steps are pairwise disjoint and free of duplicates, together they are no
\* more than the steps of the version, and no step is executed twice.
NoDuplicates(seq) == \A i, j \in DOMAIN seq : seq[i] = seq[j] => i = j

ElementsOf(seq) == {seq[i] : i \in DOMAIN seq}

C34_StepListsDisjoint ==
    /\ NoDuplicates(completed_steps)
    /\ NoDuplicates(failed_steps)
    /\ NoDuplicates(skipped_steps)
    /\ ElementsOf(completed_steps) \cap ElementsOf(failed_steps) = {}
    /\ ElementsOf(completed_steps) \cap ElementsOf(skipped_steps) = {}
    /\ ElementsOf(failed_steps) \cap ElementsOf(skipped_steps) = {}
    /\ Len(completed_steps) + Len(failed_steps) + Len(skipped_steps)
           <= Len(version_steps)
    /\ NoDuplicates(executed)

\* C35: run_task terminates whatever the agents and the planner return, a
\* step that fails on every attempt included.  What the loops of run_task
\* and execute_step decide on is the plan with its step statuses, the status
\* of the progress ledger, its completed steps and retry count, and the
\* planning attempts; every pass that executes a step changes some of it (a
\* pass that changes none of it is repeated without end by a step that keeps
\* failing).
RunControl ==
    <<task_plan, pl_status, pl_completed, retry_count, planning_attempts, r_pc>>

C35_EveryPassAdvances ==
    [][n_exec' # n_exec => RunControl' # RunControl]_vars

\* C36: two distinct request_consensus calls have distinct consensus ids,
\* also two calls of one agent within the same second, and every
\* CONSENSUS_REQUEST carries the consensus id of the call that sent it.
C36_ConsensusIdsDistinct ==
    /\ \A i, j \in DOMAIN cr_calls :
           i # j => cr_calls[i].consensus_id # cr_calls[j].consensus_id
    /\ \A k \in DOMAIN cr_requests :
           /\ cr_requests[k].consensus_id # NoConsensusId
           /\ cr_requests[k].consensus_id = cr_calls[cr_requests[k].call].consensus_id

\* C37: every subscription to a task's updates ends once the task is in a
\* final state, whether it began before or after the task got there; a
\* subscriber that began before gets exactly one final event, as its last
\* event.
TaskIsFinal(s) == sub_pc[s] = "waiting" /\ tasks[sub_task[s]].state \in FinalStates

OneFinalEventLast(s) ==
    /\ sub_got[s] # <<>>
    /\ \A i \in DOMAIN sub_got[s] : sub_got[s][i].final <=> i = Len(sub_got[s])

C37_SubscriptionEnds ==
    /\ \A s \in Subs : TaskIsFinal(s) ~> (sub_pc[s] = "ended")
    /\ [](\A s \in Subs :
             (sub_pc[s] = "ended" /\ ~sub_late[s]) => OneFinalEventLast(s))

\* C38: get_task is read-only: with any history_length it leaves the stored
\* tasks, their history, status and artifacts, as they are.
C38_GetTaskReadOnly ==
    [][tm_last'.op = "get_task" => tasks' = tasks]_vars

\* C39: each decomposition's dependencies name only its own subtasks and
\* have no cycle, so that as long as a subtask is not completed some subtask
\* is ready (completing the ready ones completes them all), also for a
\* hierarchy node that depends on its children; a sequential decomposition
\* has at most one ready subtask at a time.
SubtaskIds == {d_subtasks[i].id : i \in DOMAIN d_subtasks}

DependenciesOf(id) ==
    {d_subtasks[id].dependencies[k] : k \in DOMAIN d_subtasks[id].dependencies}

\* The subtasks that can be put in an order that respects the dependencies.
RECURSIVE Orderable(_)
Orderable(done) ==
    LET next == {id \in SubtaskIds \ done : DependenciesOf(id) \subseteq done}
    IN  IF next = {} THEN done ELSE Orderable(done \cup next)

C39_DecompositionCompletes ==
    /\ \A id \in SubtaskIds : DependenciesOf(id) \subseteq SubtaskIds
    /\ Orderable({}) = SubtaskIds
    /\ (d_subtasks # <<>> /\ ~is_complete(d_subtasks))
           => get_ready_subtasks(d_subtasks) # <<>>
    /\ d_strategy = "sequential" => Len(get_ready_subtasks(d_subtasks)) <= 1
====
